---------------------------- MODULE Spec2Model ----------------------------
(***************************************************************************)
(* A model of the metro ticketing system: the station graph and the BFS    *)
(* route search (metro/views.py), the fare, the ticket life cycle          *)
(* (tickets/models.py), the scan / purchase / expiry request handlers      *)
(* (tickets/views.py) and the footfall counters (metro/models.py).         *)
(*                                                                         *)
(* Three specifications share the variables:                               *)
(*   Spec      requests served one after the other (each handler atomic);  *)
(*   SpecConc  scan and expiry requests served concurrently, one database  *)
(*             statement per step, each request on its own in-memory copy; *)
(*   SpecPath  find_shortest_path applied to bounded station data.         *)
(***************************************************************************)
EXTENDS Integers, Sequences, FiniteSets, TLC

(***************************************************************************)
(* Bounds of the model.  Time is counted in ticks; a tick stands for a     *)
(* fixed number of hours.                                                  *)
(***************************************************************************)
NStations == 4
MaxPos == 2
MaxConn == 2
MaxInactive == 1
MaxClock == 2
TicksPerDay == 2
MaxTickets == 2
MaxScans == 3
NProcs == 2
InitialBalance == 40
MaxPathLen == 5

\* settings.TICKET_EXPIRY_HOURS, in ticks (the settings module sets the value).
TICKET_EXPIRY_HOURS == 1

\* Program constants: settings.TICKET_BASE_FARE and TICKET_PER_STATION_FARE
\* (the values MetroSystem.BASE_FARE and PER_STATION_FARE carry in main.py).
TICKET_BASE_FARE == 10
TICKET_PER_STATION_FARE == 5

\* Python's None for a timestamp, a station or a row that is absent.
Null == 0 - 1
\* The value find_shortest_path returns when the queue empties (None).
NoPath == << >>

Stations == 1..NStations
Lines == {1, 2}
Users == {"u1"}
Procs == 1..NProcs
ScanTypes == {"entry", "exit"}

VARIABLES
    stations,      \* Station rows: id -> [line, position, is_active]
    lines,         \* MetroLine rows: id -> [is_active, ticket_booking_enabled]
    connections,   \* StationConnection rows in recorded order
    tickets,       \* Ticket rows in creation order; the index is the ticket id
    scans,         \* TicketScan rows in creation order
    footfall,      \* DailyFootfall rows in creation order; the index is the row id
    balance,       \* User.balance per user
    clock,         \* timezone.now(), in ticks
    resp,          \* what the last sequential request returned to its caller
    req,           \* SpecConc: per request in flight, its position and locals
    route          \* SpecPath, SpecFare: the last route or fare call and its result

vars == << stations, lines, connections, tickets, scans, footfall, balance,
           clock, resp, req, route >>

dbvars == << tickets, scans, footfall, balance >>
netvars == << stations, lines, connections >>

-----------------------------------------------------------------------------
(***************************************************************************)
(* Station graph and route search: metro/models.py, metro/views.py         *)
(***************************************************************************)

\* Station.objects.filter(is_active=True)
ActiveStations(st) == { s \in DOMAIN st : st[s].is_active }

\* Station.get_next_station: the active station at position + 1 on the line.
get_next_station(st, s) ==
    LET found == { x \in DOMAIN st : /\ st[x].line = st[s].line
                                     /\ st[x].position = st[s].position + 1
                                     /\ st[x].is_active }
    IN IF found = {} THEN Null ELSE CHOOSE x \in found : TRUE

\* Station.get_previous_station: the active station at position - 1.
get_previous_station(st, s) ==
    LET found == { x \in DOMAIN st : /\ st[x].line = st[s].line
                                     /\ st[x].position = st[s].position - 1
                                     /\ st[x].is_active }
    IN IF found = {} THEN Null ELSE CHOOSE x \in found : TRUE

InSeq(x, seq) == \E i \in 1..Len(seq) : seq[i] = x

\* Mutant of AddInterchanges: connections of every kind are followed.
RECURSIVE AddInterchanges_any_kind(_, _, _, _)
AddInterchanges_any_kind(list, conns, s, i) ==
    IF i > Len(conns) THEN list
    ELSE IF /\ conns[i].from_station = s
            /\ ~ InSeq(conns[i].to_station, list)
         THEN AddInterchanges_any_kind(Append(list, conns[i].to_station), conns, s, i + 1)
         ELSE AddInterchanges_any_kind(list, conns, s, i + 1)

\* Mutant of AddInterchanges: an interchange connection is followed in both
\* directions.
RECURSIVE AddInterchanges_both_ways(_, _, _, _)
AddInterchanges_both_ways(list, conns, s, i) ==
    IF i > Len(conns) THEN list
    ELSE IF /\ conns[i].from_station = s
            /\ conns[i].connection_type = "interchange"
            /\ ~ InSeq(conns[i].to_station, list)
         THEN AddInterchanges_both_ways(Append(list, conns[i].to_station), conns, s, i + 1)
         ELSE IF /\ conns[i].to_station = s
                 /\ conns[i].connection_type = "interchange"
                 /\ ~ InSeq(conns[i].from_station, list)
         THEN AddInterchanges_both_ways(Append(list, conns[i].from_station), conns, s, i + 1)
         ELSE AddInterchanges_both_ways(list, conns, s, i + 1)

\* The loop over StationConnection.objects.filter(from_station=station,
\* connection_type='interchange'): append to_station unless already listed.
RECURSIVE AddInterchanges(_, _, _, _)
AddInterchanges(list, conns, s, i) ==
    IF i > Len(conns) THEN list
    ELSE IF /\ conns[i].from_station = s
            /\ conns[i].connection_type = "interchange"
            /\ ~ InSeq(conns[i].to_station, list)
         THEN AddInterchanges(Append(list, conns[i].to_station), conns, s, i + 1)
         ELSE AddInterchanges(list, conns, s, i + 1)

\* The neighbour list find_shortest_path builds for one active station.
NeighborList(st, conns, s) ==
    LET next_station == get_next_station(st, s)
        prev_station == get_previous_station(st, s)
        l1 == IF next_station # Null THEN << next_station >> ELSE << >>
        l2 == IF prev_station # Null THEN Append(l1, prev_station) ELSE l1
    IN AddInterchanges(l2, conns, s, 1)

\* adjacency = {station: [...]} over the active stations.
BuildAdjacency(st, conns) ==
    [ s \in ActiveStations(st) |-> NeighborList(st, conns, s) ]

\* adjacency.get(current, [])
AdjGet(adjacency, current) ==
    IF current \in DOMAIN adjacency THEN adjacency[current] ELSE << >>

\* Mutant of Enqueue: the extended paths go to the front of the queue (a
\* stack instead of a queue).
RECURSIVE Enqueue_front(_, _, _, _, _)
Enqueue_front(queue, path, nbrs, visited, i) ==
    IF i > Len(nbrs) THEN queue
    ELSE IF nbrs[i] \notin visited
         THEN Enqueue_front(<< Append(path, nbrs[i]) >> \o queue, path, nbrs, visited, i + 1)
         ELSE Enqueue_front(queue, path, nbrs, visited, i + 1)

\* Mutant of Enqueue: the neighbours are taken last to first.
RECURSIVE Enqueue_last_first(_, _, _, _, _)
Enqueue_last_first(queue, path, nbrs, visited, i) ==
    IF i > Len(nbrs) THEN queue
    ELSE LET n == nbrs[Len(nbrs) + 1 - i]
         IN IF n \notin visited
            THEN Enqueue_last_first(Append(queue, Append(path, n)), path, nbrs, visited, i + 1)
            ELSE Enqueue_last_first(queue, path, nbrs, visited, i + 1)

\* The inner for loop: queue.append(path + [neighbor]) for each neighbour
\* that is not in visited.
RECURSIVE Enqueue(_, _, _, _, _)
Enqueue(queue, path, nbrs, visited, i) ==
    IF i > Len(nbrs) THEN queue
    ELSE IF nbrs[i] \notin visited
         THEN Enqueue(Append(queue, Append(path, nbrs[i])), path, nbrs, visited, i + 1)
         ELSE Enqueue(queue, path, nbrs, visited, i + 1)

\* The while loop of find_shortest_path.
RECURSIVE BFS(_, _, _, _)
BFS(adjacency, queue, visited, destination) ==
    IF queue = << >> THEN NoPath
    ELSE LET path == Head(queue)
             current == path[Len(path)]
         IN IF current = destination THEN path
            ELSE IF current \notin visited
                 THEN BFS(adjacency,
                          Enqueue(Tail(queue), path, AdjGet(adjacency, current),
                                  visited \cup {current}, 1),
                          visited \cup {current}, destination)
                 ELSE BFS(adjacency, Tail(queue), visited, destination)

\* Mutant of find_shortest_path: when the queue empties, the path of the
\* origin alone is returned in place of None.
find_shortest_path_never_none(st, conns, origin, destination) ==
    IF origin = destination THEN << origin >>
    ELSE LET found == BFS(BuildAdjacency(st, conns), << << origin >> >>, {}, destination)
         IN IF found = NoPath THEN << origin >> ELSE found

find_shortest_path(st, conns, origin, destination) ==
    IF origin = destination THEN << origin >>
    ELSE BFS(BuildAdjacency(st, conns), << << origin >> >>, {}, destination)

\* Mutant of calculate_fare: every station of the path is charged, the
\* first one included.
calculate_fare_every_station(path) ==
    IF Len(path) < 2 THEN 0
    ELSE TICKET_BASE_FARE + Len(path) * TICKET_PER_STATION_FARE

\* calculate_fare: 0 for "not path or len(path) < 2", else base fare plus
\* the per-station fare for each station crossed.
calculate_fare(path) ==
    IF Len(path) < 2 THEN 0
    ELSE TICKET_BASE_FARE + (Len(path) - 1) * TICKET_PER_STATION_FARE

-----------------------------------------------------------------------------
(***************************************************************************)
(* Ticket life cycle: tickets/models.py                                    *)
(***************************************************************************)

\* A message string: the fixed text and the value formatted into it.
Msg(text, arg) == [text |-> text, arg |-> arg]

\* timezone.now().date()
Date(now) == now \div TicksPerDay

\* Mutant of is_expired: >= in place of >.
is_expired_inclusive(tk, now) == now >= tk.purchased_at + TICKET_EXPIRY_HOURS

\* Ticket.is_expired: timezone.now() > purchased_at + TICKET_EXPIRY_HOURS.
is_expired(tk, now) == now > tk.purchased_at + TICKET_EXPIRY_HOURS

\* Mutant of check_and_update_expiry: a ticket that is already 'expired' is
\* expired once more, and True is returned again.
check_and_update_expiry_again(tk, now) ==
    IF tk.status \in {"active", "expired"} /\ now > tk.purchased_at + TICKET_EXPIRY_HOURS
    THEN [ticket |-> [tk EXCEPT !.status = "expired"], save |-> TRUE, ret |-> TRUE]
    ELSE [ticket |-> tk, save |-> FALSE, ret |-> FALSE]

\* Mutant of check_and_update_expiry: the status test also lets 'in_use' through.
check_and_update_expiry_in_use(tk, now) ==
    IF tk.status \in {"active", "in_use"} /\ now > tk.purchased_at + TICKET_EXPIRY_HOURS
    THEN [ticket |-> [tk EXCEPT !.status = "expired"], save |-> TRUE, ret |-> TRUE]
    ELSE [ticket |-> tk, save |-> FALSE, ret |-> FALSE]

\* Ticket.check_and_update_expiry on the in-memory row tk.  ticket is the
\* row afterwards, save says whether self.save() ran, ret is the return value.
check_and_update_expiry(tk, now) ==
    IF tk.status = "active" /\ is_expired(tk, now)
    THEN [ticket |-> [tk EXCEPT !.status = "expired"], save |-> TRUE, ret |-> TRUE]
    ELSE [ticket |-> tk, save |-> FALSE, ret |-> FALSE]

\* Mutant of scan_entry: a 'used' ticket passes the status guard as well.
scan_entry_reuse(tk, station, now) ==
    IF tk.status \notin {"active", "used"}
    THEN [ticket |-> tk, save |-> FALSE, count |-> FALSE,
          success |-> FALSE, message |-> Msg("Ticket is", tk.status)]
    ELSE IF now > tk.purchased_at + TICKET_EXPIRY_HOURS
    THEN [ticket |-> [tk EXCEPT !.status = "expired"], save |-> TRUE, count |-> FALSE,
          success |-> FALSE, message |-> Msg("Ticket has expired", "")]
    ELSE IF station # tk.origin
    THEN [ticket |-> tk, save |-> FALSE, count |-> FALSE, success |-> FALSE,
          message |-> Msg("Invalid entry station. Ticket is from", ToString(tk.origin))]
    ELSE [ticket |-> [tk EXCEPT !.status = "in_use", !.entry_time = now],
          save |-> TRUE, count |-> TRUE,
          success |-> TRUE, message |-> Msg("Entry successful", "")]

\* Mutant of scan_entry: the station guard is missing.
scan_entry_any_station(tk, station, now) ==
    IF tk.status # "active"
    THEN [ticket |-> tk, save |-> FALSE, count |-> FALSE,
          success |-> FALSE, message |-> Msg("Ticket is", tk.status)]
    ELSE IF now > tk.purchased_at + TICKET_EXPIRY_HOURS
    THEN [ticket |-> [tk EXCEPT !.status = "expired"], save |-> TRUE, count |-> FALSE,
          success |-> FALSE, message |-> Msg("Ticket has expired", "")]
    ELSE [ticket |-> [tk EXCEPT !.status = "in_use", !.entry_time = now],
          save |-> TRUE, count |-> TRUE,
          success |-> TRUE, message |-> Msg("Entry successful", "")]

\* Mutant of scan_entry: the station guard comes before the expiry check.
scan_entry_station_first(tk, station, now) ==
    IF tk.status # "active"
    THEN [ticket |-> tk, save |-> FALSE, count |-> FALSE,
          success |-> FALSE, message |-> Msg("Ticket is", tk.status)]
    ELSE IF station # tk.origin
    THEN [ticket |-> tk, save |-> FALSE, count |-> FALSE, success |-> FALSE,
          message |-> Msg("Invalid entry station. Ticket is from", ToString(tk.origin))]
    ELSE IF now > tk.purchased_at + TICKET_EXPIRY_HOURS
    THEN [ticket |-> [tk EXCEPT !.status = "expired"], save |-> TRUE, count |-> FALSE,
          success |-> FALSE, message |-> Msg("Ticket has expired", "")]
    ELSE [ticket |-> [tk EXCEPT !.status = "in_use", !.entry_time = now],
          save |-> TRUE, count |-> TRUE,
          success |-> TRUE, message |-> Msg("Entry successful", "")]

\* Mutant of scan_entry: a successful entry does not stamp entry_time.
scan_entry_no_stamp(tk, station, now) ==
    IF tk.status # "active"
    THEN [ticket |-> tk, save |-> FALSE, count |-> FALSE,
          success |-> FALSE, message |-> Msg("Ticket is", tk.status)]
    ELSE IF is_expired(tk, now)
    THEN [ticket |-> [tk EXCEPT !.status = "expired"], save |-> TRUE, count |-> FALSE,
          success |-> FALSE, message |-> Msg("Ticket has expired", "")]
    ELSE IF station # tk.origin
    THEN [ticket |-> tk, save |-> FALSE, count |-> FALSE, success |-> FALSE,
          message |-> Msg("Invalid entry station. Ticket is from", ToString(tk.origin))]
    ELSE [ticket |-> [tk EXCEPT !.status = "in_use"],
          save |-> TRUE, count |-> TRUE,
          success |-> TRUE, message |-> Msg("Entry successful", "")]

\* Ticket.scan_entry on the in-memory row tk, up to the footfall update.
\* count says whether the footfall update that follows the save is reached.
scan_entry(tk, station, now) ==
    IF tk.status # "active"
    THEN [ticket |-> tk, save |-> FALSE, count |-> FALSE,
          success |-> FALSE, message |-> Msg("Ticket is", tk.status)]
    ELSE IF is_expired(tk, now)
    THEN [ticket |-> [tk EXCEPT !.status = "expired"], save |-> TRUE, count |-> FALSE,
          success |-> FALSE, message |-> Msg("Ticket has expired", "")]
    ELSE IF station # tk.origin
    THEN [ticket |-> tk, save |-> FALSE, count |-> FALSE, success |-> FALSE,
          message |-> Msg("Invalid entry station. Ticket is from", ToString(tk.origin))]
    ELSE [ticket |-> [tk EXCEPT !.status = "in_use", !.entry_time = now],
          save |-> TRUE, count |-> TRUE,
          success |-> TRUE, message |-> Msg("Entry successful", "")]

\* Mutant of scan_exit: the status guard is missing.
scan_exit_any_status(tk, station, now) ==
    IF station # tk.destination
    THEN [ticket |-> tk, save |-> FALSE, count |-> FALSE, success |-> FALSE,
          message |-> Msg("Invalid exit station. Ticket is to", ToString(tk.destination))]
    ELSE [ticket |-> [tk EXCEPT !.status = "used", !.exit_time = now],
          save |-> TRUE, count |-> TRUE,
          success |-> TRUE, message |-> Msg("Exit successful", "")]

\* Mutant of scan_exit: exit_time is stamped and saved before the station guard.
scan_exit_stamp_early(tk, station, now) ==
    IF tk.status # "in_use"
    THEN [ticket |-> tk, save |-> FALSE, count |-> FALSE,
          success |-> FALSE, message |-> Msg("Ticket is", tk.status)]
    ELSE IF station # tk.destination
    THEN [ticket |-> [tk EXCEPT !.exit_time = now], save |-> TRUE, count |-> FALSE,
          success |-> FALSE,
          message |-> Msg("Invalid exit station. Ticket is to", ToString(tk.destination))]
    ELSE [ticket |-> [tk EXCEPT !.status = "used", !.exit_time = now],
          save |-> TRUE, count |-> TRUE,
          success |-> TRUE, message |-> Msg("Exit successful", "")]

\* Mutant of scan_exit: a successful exit stores the route and the fare of
\* the station data as they are at the time of the scan.
scan_exit_reroute(tk, station, now) ==
    IF tk.status # "in_use"
    THEN [ticket |-> tk, save |-> FALSE, count |-> FALSE,
          success |-> FALSE, message |-> Msg("Ticket is", tk.status)]
    ELSE IF station # tk.destination
    THEN [ticket |-> tk, save |-> FALSE, count |-> FALSE, success |-> FALSE,
          message |-> Msg("Invalid exit station. Ticket is to", ToString(tk.destination))]
    ELSE LET path == find_shortest_path(stations, connections, tk.origin, tk.destination) IN
         [ticket |-> [tk EXCEPT !.status = "used", !.exit_time = now,
                                !.path = path, !.price = calculate_fare(path)],
          save |-> TRUE, count |-> TRUE,
          success |-> TRUE, message |-> Msg("Exit successful", "")]

\* Mutant of scan_exit: the station guard is missing.
scan_exit_any_station(tk, station, now) ==
    IF tk.status # "in_use"
    THEN [ticket |-> tk, save |-> FALSE, count |-> FALSE,
          success |-> FALSE, message |-> Msg("Ticket is", tk.status)]
    ELSE [ticket |-> [tk EXCEPT !.status = "used", !.exit_time = now],
          save |-> TRUE, count |-> TRUE,
          success |-> TRUE, message |-> Msg("Exit successful", "")]

\* Ticket.scan_exit on the in-memory row tk, up to the footfall update.
scan_exit(tk, station, now) ==
    IF tk.status # "in_use"
    THEN [ticket |-> tk, save |-> FALSE, count |-> FALSE,
          success |-> FALSE, message |-> Msg("Ticket is", tk.status)]
    ELSE IF station # tk.destination
    THEN [ticket |-> tk, save |-> FALSE, count |-> FALSE, success |-> FALSE,
          message |-> Msg("Invalid exit station. Ticket is to", ToString(tk.destination))]
    ELSE [ticket |-> [tk EXCEPT !.status = "used", !.exit_time = now],
          save |-> TRUE, count |-> TRUE,
          success |-> TRUE, message |-> Msg("Exit successful", "")]

\* The dispatch of scan_ticket: scan_entry for 'entry', scan_exit otherwise.
PerformScan(tk, station, scan_type, now) ==
    IF scan_type = "entry" THEN scan_entry(tk, station, now)
    ELSE scan_exit(tk, station, now)

(***************************************************************************)
(* Footfall counters: metro/models.py                                      *)
(***************************************************************************)

\* The rows of the table with the key << station, date >>.
Matching(ff, key) ==
    { i \in 1..Len(ff) : ff[i].station = key[1] /\ ff[i].date = key[2] }

\* DailyFootfall.objects.get(station=, date=) where a row exists.
GetRow(ff, key) == CHOOSE i \in Matching(ff, key) : TRUE

\* The row a create() inserts: both counters at their default 0.
NewRow(key) == [station |-> key[1], date |-> key[2], entry_count |-> 0, exit_count |-> 0]

\* Mutant of create_row: the table has no unique_together constraint.
create_row_no_constraint(ff, key) == Append(ff, NewRow(key))

\* The INSERT of get_or_create under unique_together (station, date): the
\* database rejects it when a row with the key exists (IntegrityError, after
\* which get_or_create reads that row).  The table afterwards.
create_row(ff, key) ==
    IF Matching(ff, key) = {} THEN Append(ff, NewRow(key)) ELSE ff

\* DailyFootfall.objects.get_or_create(station=, date=): the table afterwards.
get_or_create(ff, key) ==
    IF Matching(ff, key) # {} THEN ff ELSE create_row(ff, key)

\* Mutant of record_exit: an exit is counted as an entry.
record_exit_as_entry(row) == [row EXCEPT !.entry_count = @ + 1]

\* DailyFootfall.record_entry / record_exit on an in-memory row.
record_entry(row) == [row EXCEPT !.entry_count = @ + 1]
record_exit(row) == [row EXCEPT !.exit_count = @ + 1]

\* The footfall part of a successful scan, run without interruption:
\* get_or_create, then record_entry / record_exit, which saves the row.
UpdateFootfall(ff, station, scan_type, now) ==
    LET key == << station, Date(now) >>
        got == get_or_create(ff, key)
        id == GetRow(got, key)
        row == IF scan_type = "entry" THEN record_entry(got[id])
               ELSE record_exit(got[id])
    IN [got EXCEPT ![id] = row]

(***************************************************************************)
(* Request handlers served one at a time: tickets/views.py                 *)
(***************************************************************************)

\* Ticket.objects.create(user, origin, destination, price, path) at time now.
NewTicket(user, origin, destination, price, path, status, now) ==
    [user |-> user, origin |-> origin, destination |-> destination,
     price |-> price, status |-> status, purchased_at |-> now,
     entry_time |-> Null, exit_time |-> Null, path |-> path]

\* Mutant of TicketScanCreate: one row per ticket and scan type; a repeated
\* scan overwrites the row of the earlier one.
TicketScanCreate_overwrite(rows, tid, station, scan_type, success, message) ==
    LET row == [ticket |-> tid, station |-> station, scan_type |-> scan_type,
                success |-> success, message |-> message]
        old == { i \in 1..Len(rows) : rows[i].ticket = tid /\ rows[i].scan_type = scan_type }
    IN IF old = {} THEN Append(rows, row)
       ELSE [ i \in 1..Len(rows) |-> IF i \in old THEN row ELSE rows[i] ]

\* Mutant of TicketScanCreate: only a successful scan is recorded.
TicketScanCreate_success_only(rows, tid, station, scan_type, success, message) ==
    IF success
    THEN Append(rows, [ticket |-> tid, station |-> station, scan_type |-> scan_type,
                       success |-> success, message |-> message])
    ELSE rows

\* TicketScan.objects.create(...) in scan_ticket: the table afterwards.
TicketScanCreate(rows, tid, station, scan_type, success, message) ==
    Append(rows, [ticket |-> tid, station |-> station, scan_type |-> scan_type,
                  success |-> success, message |-> message])

\* Ticket.objects.get(ticket_id=...) finds a row.
TicketExists(tid) == tid \in 1..Len(tickets)

Resp(op, success, message) == [op |-> op, success |-> success, message |-> message]

\* Mutant of scan_ticket: an attempt with an unknown ticket id is recorded
\* in the audit table too.
scan_ticket_audit_unknown(tid, station, scan_type) ==
    /\ station \in ActiveStations(stations)
    /\ Len(scans) < MaxScans
    /\ IF ~ TicketExists(tid)
       THEN /\ resp' = Resp("scan_ticket", FALSE, Msg("Invalid ticket ID.", ""))
            /\ scans' = TicketScanCreate(scans, tid, station, scan_type, FALSE,
                                         Msg("Invalid ticket ID.", ""))
            /\ UNCHANGED << tickets, footfall >>
       ELSE LET r == PerformScan(tickets[tid], station, scan_type, clock) IN
            /\ tickets' = IF r.save THEN [tickets EXCEPT ![tid] = r.ticket] ELSE tickets
            /\ footfall' = IF r.count
                           THEN UpdateFootfall(footfall, station, scan_type, clock)
                           ELSE footfall
            /\ scans' = TicketScanCreate(scans, tid, station, scan_type,
                                         r.success, r.message)
            /\ resp' = Resp("scan_ticket", r.success, r.message)
    /\ UNCHANGED << netvars, balance, clock, req, route >>

\* scan_ticket (POST, valid form) for a ticket id, a station and a scan type.
scan_ticket(tid, station, scan_type) ==
    /\ station \in ActiveStations(stations)
    /\ IF ~ TicketExists(tid)
       THEN /\ resp' = Resp("scan_ticket", FALSE, Msg("Invalid ticket ID.", ""))
            /\ UNCHANGED << tickets, scans, footfall >>
       ELSE LET r == PerformScan(tickets[tid], station, scan_type, clock) IN
            /\ Len(scans) < MaxScans
            /\ tickets' = IF r.save THEN [tickets EXCEPT ![tid] = r.ticket] ELSE tickets
            /\ footfall' = IF r.count
                           THEN UpdateFootfall(footfall, station, scan_type, clock)
                           ELSE footfall
            /\ scans' = TicketScanCreate(scans, tid, station, scan_type,
                                         r.success, r.message)
            /\ resp' = Resp("scan_ticket", r.success, r.message)
    /\ UNCHANGED << netvars, balance, clock, req, route >>

\* ticket_detail: the owner (or staff) reads a ticket; expiry is checked.
ticket_detail(tid) ==
    /\ TicketExists(tid)
    /\ LET r == check_and_update_expiry(tickets[tid], clock) IN
       /\ tickets' = IF r.save THEN [tickets EXCEPT ![tid] = r.ticket] ELSE tickets
       /\ resp' = Resp("ticket_detail", r.ret, Msg("", ""))
    /\ UNCHANGED << netvars, scans, footfall, balance, clock, req, route >>

\* my_tickets: check_and_update_expiry on each of the user's active tickets.
my_tickets(user) ==
    /\ tickets' = [ i \in 1..Len(tickets) |->
                      IF tickets[i].user = user /\ tickets[i].status = "active"
                      THEN check_and_update_expiry(tickets[i], clock).ticket
                      ELSE tickets[i] ]
    /\ resp' = Resp("my_tickets", TRUE, Msg("", ""))
    /\ UNCHANGED << netvars, scans, footfall, balance, clock, req, route >>

\* The journeys the model's passengers ask for: one along line 1 and one
\* across the interchange, so that each has a station that is neither its
\* origin nor its destination, or lies in the middle of its path.
Journeys == { << 1, 3 >>, << 2, 1 >> }

\* Mutant of deduct_balance: the amount is taken whatever the balance is.
deduct_balance_unchecked(bal, amount) == bal - amount

\* User.deduct_balance
deduct_balance(bal, amount) == IF bal >= amount THEN bal - amount ELSE bal

\* Mutant of purchase_ticket: the test for an empty route is left out.
purchase_ticket_any_route(user, origin, destination) ==
    /\ origin \in ActiveStations(stations)
    /\ destination \in ActiveStations(stations)
    /\ origin # destination
    /\ Len(tickets) < MaxTickets
    /\ LET line == lines[stations[origin].line]
           path == find_shortest_path(stations, connections, origin, destination)
           fare == calculate_fare(path)
       IN IF ~ line.is_active \/ ~ line.ticket_booking_enabled
          THEN /\ resp' = Resp("purchase_ticket", FALSE, Msg("Line is not available for booking.", ""))
               /\ UNCHANGED << tickets, balance >>
          ELSE IF balance[user] < fare
          THEN /\ resp' = Resp("purchase_ticket", FALSE, Msg("Insufficient balance.", ""))
               /\ UNCHANGED << tickets, balance >>
          ELSE /\ tickets' = Append(tickets, NewTicket(user, origin, destination,
                                                       fare, path, "active", clock))
               /\ balance' = [balance EXCEPT ![user] = deduct_balance(@, fare)]
               /\ resp' = Resp("purchase_ticket", TRUE, Msg("Ticket purchased successfully!", ""))
    /\ UNCHANGED << netvars, scans, footfall, clock, req, route >>

\* purchase_ticket (POST, valid form: two distinct active stations).
purchase_ticket(user, origin, destination) ==
    /\ origin \in ActiveStations(stations)
    /\ destination \in ActiveStations(stations)
    /\ origin # destination
    /\ Len(tickets) < MaxTickets
    /\ LET line == lines[stations[origin].line]
           path == find_shortest_path(stations, connections, origin, destination)
           fare == calculate_fare(path)
       IN IF ~ line.is_active \/ ~ line.ticket_booking_enabled
          THEN /\ resp' = Resp("purchase_ticket", FALSE, Msg("Line is not available for booking.", ""))
               /\ UNCHANGED << tickets, balance >>
          ELSE IF path = NoPath
          THEN /\ resp' = Resp("purchase_ticket", FALSE, Msg("No route available between selected stations.", ""))
               /\ UNCHANGED << tickets, balance >>
          ELSE IF balance[user] < fare
          THEN /\ resp' = Resp("purchase_ticket", FALSE, Msg("Insufficient balance.", ""))
               /\ UNCHANGED << tickets, balance >>
          ELSE /\ tickets' = Append(tickets, NewTicket(user, origin, destination,
                                                       fare, path, "active", clock))
               /\ balance' = [balance EXCEPT ![user] = deduct_balance(@, fare)]
               /\ resp' = Resp("purchase_ticket", TRUE, Msg("Ticket purchased successfully!", ""))
    /\ UNCHANGED << netvars, scans, footfall, clock, req, route >>

\* Time passes between requests.
Tick ==
    /\ clock < MaxClock
    /\ clock' = clock + 1
    /\ UNCHANGED << netvars, dbvars, resp, req, route >>

(***************************************************************************)
(* The station data the sequential and the concurrent system run on: line  *)
(* 1 holds stations 1 and 2 at positions 0 and 1; line 2 holds station 3,  *)
(* joined to station 2 by a pair of interchange connections.               *)
(***************************************************************************)
NetStations == 1..3

InitNetwork ==
    /\ stations = [ s \in NetStations |->
                      IF s <= 2 THEN [line |-> 1, position |-> s - 1, is_active |-> TRUE]
                      ELSE [line |-> 2, position |-> 0, is_active |-> TRUE] ]
    /\ lines = [ l \in Lines |-> [is_active |-> TRUE, ticket_booking_enabled |-> TRUE] ]
    /\ connections = << [from_station |-> 2, to_station |-> 3, connection_type |-> "interchange"],
                        [from_station |-> 3, to_station |-> 2, connection_type |-> "interchange"] >>

NoTicket == NewTicket("", Null, Null, 0, NoPath, "none", Null)
NoRow == NewRow(<< Null, Null >>)
IdleReq == [pc |-> "idle", op |-> "", tid |-> Null, station |-> Null,
            ticket |-> NoTicket, seen |-> "none", key |-> << Null, Null >>,
            rowid |-> Null, row |-> NoRow, success |-> FALSE, message |-> Msg("", ""),
            balance |-> Null, user |-> "", amount |-> 0]
NoRoute == [origin |-> Null, destination |-> Null, path |-> NoPath, error |-> "none",
            fare |-> Null]

Init ==
    /\ InitNetwork
    /\ tickets = << >>
    /\ scans = << >>
    /\ footfall = << >>
    /\ balance = [ u \in Users |-> InitialBalance ]
    /\ clock = 0
    /\ resp = Resp("", FALSE, Msg("", ""))
    /\ req = [ p \in Procs |-> IdleReq ]
    /\ route = NoRoute

Next ==
    \/ Tick
    \/ \E u \in Users, j \in Journeys : purchase_ticket(u, j[1], j[2])
    \/ \E tid \in 1..MaxTickets + 1, s \in Stations, ty \in ScanTypes : scan_ticket(tid, s, ty)
    \/ \E tid \in 1..MaxTickets : ticket_detail(tid)
    \/ \E u \in Users : my_tickets(u)

Spec == Init /\ [][Next]_vars

-----------------------------------------------------------------------------
(***************************************************************************)
(* Concurrent requests.  scan_ticket and ticket_detail open no transaction *)
(* and take no lock: every ORM call is a database statement of its own,    *)
(* and Model.save() writes every column of the in-memory row.  A request   *)
(* takes one step per statement; the Python between two statements works   *)
(* on the request's own copies and is part of the step that follows it.    *)
(* Each of the NProcs workers serves one request.                          *)
(***************************************************************************)

\* The database states the concurrent requests start from: tickets bought at
\* time 0 for the journey 1 -> 3, or 3 -> 1 for the tickets in back (the
\* last ticket or none), the tickets in inUse already scanned in at their
\* origin (each with its audit row and its footfall count).
ConcOrigin(back, i) == IF i \in back THEN 3 ELSE 1

ConcTicket(inUse, back, i) ==
    LET path == IF i \in back THEN << 3, 2, 1 >> ELSE << 1, 2, 3 >>
        tk == NewTicket("u1", path[1], path[3], calculate_fare(path), path, "active", 0)
    IN IF i \in inUse THEN [tk EXCEPT !.status = "in_use", !.entry_time = 0] ELSE tk

RECURSIVE ConcScansUpTo(_, _, _)
ConcScansUpTo(inUse, back, n) ==
    IF n = 0 THEN << >>
    ELSE IF n \in inUse
         THEN Append(ConcScansUpTo(inUse, back, n - 1),
                     [ticket |-> n, station |-> ConcOrigin(back, n), scan_type |-> "entry",
                      success |-> TRUE, message |-> Msg("Entry successful", "")])
         ELSE ConcScansUpTo(inUse, back, n - 1)

ConcScans(inUse, back) == ConcScansUpTo(inUse, back, MaxTickets)

\* The footfall rows of date 0 after the entries of the tickets in inUse,
\* in the order of those entries (the tickets of back come last).
ConcFootfall(inUse, back) ==
    LET Row(o) == [NewRow(<< o, 0 >>) EXCEPT
                     !.entry_count = Cardinality({ i \in inUse : ConcOrigin(back, i) = o })]
        Entered(row) == row.entry_count > 0
    IN SelectSeq(<< Row(1), Row(3) >>, Entered)

InitConc ==
    /\ InitNetwork
    /\ \E inUse \in SUBSET (1..MaxTickets), back \in { {}, {MaxTickets} } :
          /\ tickets = [ i \in 1..MaxTickets |-> ConcTicket(inUse, back, i) ]
          /\ scans = ConcScans(inUse, back)
          /\ footfall = ConcFootfall(inUse, back)
    /\ balance = [ u \in Users |-> 0 ]
    /\ clock = 0
    /\ resp = Resp("", FALSE, Msg("", ""))
    /\ req = [ p \in Procs |-> IdleReq ]
    /\ route = NoRoute

\* Requests that will still write an audit row.
Pending == { p \in Procs : req[p].op \in ScanTypes /\ req[p].pc # "done" }

\* scan_ticket, first statement: Ticket.objects.get(ticket_id=...).
StartScan(p, tid, station, scan_type) ==
    /\ req[p].pc = "idle"
    /\ TicketExists(tid)
    /\ station \in ActiveStations(stations)
    /\ Len(scans) + Cardinality(Pending) < MaxScans + MaxTickets
    /\ req' = [req EXCEPT ![p] = [IdleReq EXCEPT !.pc = "scan", !.op = scan_type,
                                     !.tid = tid, !.station = station,
                                     !.ticket = tickets[tid],
                                     !.seen = tickets[tid].status]]
    /\ UNCHANGED << netvars, dbvars, clock, resp, route >>

\* scan_entry / scan_exit on the request's copy, up to and including its
\* self.save().
DoScan(p) ==
    /\ req[p].pc = "scan"
    /\ LET r == PerformScan(req[p].ticket, req[p].station, req[p].op, clock) IN
       /\ tickets' = IF r.save THEN [tickets EXCEPT ![req[p].tid] = r.ticket] ELSE tickets
       /\ req' = [req EXCEPT ![p].ticket = r.ticket, ![p].success = r.success,
                             ![p].message = r.message,
                             ![p].pc = IF r.count THEN "ff_get" ELSE "audit"]
    /\ UNCHANGED << netvars, scans, footfall, balance, clock, resp, route >>

\* DailyFootfall.objects.get_or_create(station=, date=now().date()), its
\* SELECT: the row if there is one, else on to the INSERT.
FfGet(p) ==
    /\ req[p].pc = "ff_get"
    /\ LET key == << req[p].station, Date(clock) >> IN
       req' = IF Matching(footfall, key) # {}
              THEN [req EXCEPT ![p].key = key,
                               ![p].rowid = GetRow(footfall, key),
                               ![p].row = footfall[GetRow(footfall, key)],
                               ![p].pc = "ff_save"]
              ELSE [req EXCEPT ![p].key = key, ![p].pc = "ff_create"]
    /\ UNCHANGED << netvars, dbvars, clock, resp, route >>

\* get_or_create, its INSERT: the new row, or after an IntegrityError the
\* row another request has inserted meanwhile.
FfCreate(p) ==
    /\ req[p].pc = "ff_create"
    /\ LET got == create_row(footfall, req[p].key)
           id == IF Len(got) > Len(footfall) THEN Len(got) ELSE GetRow(got, req[p].key)
       IN /\ footfall' = got
          /\ req' = [req EXCEPT ![p].rowid = id, ![p].row = got[id], ![p].pc = "ff_save"]
    /\ UNCHANGED << netvars, tickets, scans, balance, clock, resp, route >>

\* footfall.record_entry() / record_exit(): += 1 on the copy, then save(),
\* which writes every column of the row with the copy's id.
FfSave(p) ==
    /\ req[p].pc = "ff_save"
    /\ LET row == IF req[p].op = "entry" THEN record_entry(req[p].row)
                  ELSE record_exit(req[p].row)
       IN /\ footfall' = [footfall EXCEPT ![req[p].rowid] = row]
          /\ req' = [req EXCEPT ![p].row = row, ![p].pc = "audit"]
    /\ UNCHANGED << netvars, tickets, scans, balance, clock, resp, route >>

\* TicketScan.objects.create(...), then the response.
Audit(p) ==
    /\ req[p].pc = "audit"
    /\ scans' = TicketScanCreate(scans, req[p].tid, req[p].station, req[p].op,
                                 req[p].success, req[p].message)
    /\ req' = [req EXCEPT ![p].pc = "done"]
    /\ UNCHANGED << netvars, tickets, footfall, balance, clock, resp, route >>

\* ticket_detail, first statement: get_object_or_404(Ticket, ...).
StartDetail(p, tid) ==
    /\ req[p].pc = "idle"
    /\ TicketExists(tid)
    /\ req' = [req EXCEPT ![p] = [IdleReq EXCEPT !.pc = "expiry", !.op = "detail",
                                     !.tid = tid, !.ticket = tickets[tid],
                                     !.seen = tickets[tid].status]]
    /\ UNCHANGED << netvars, dbvars, clock, resp, route >>

\* ticket.check_and_update_expiry() on the request's copy.
DoExpiry(p) ==
    /\ req[p].pc = "expiry"
    /\ LET r == check_and_update_expiry(req[p].ticket, clock) IN
       /\ tickets' = IF r.save THEN [tickets EXCEPT ![req[p].tid] = r.ticket] ELSE tickets
       /\ req' = [req EXCEPT ![p].ticket = r.ticket, ![p].success = r.ret,
                             ![p].pc = "done"]
    /\ UNCHANGED << netvars, scans, footfall, balance, clock, resp, route >>

NextConc ==
    \/ Tick
    \/ \E p \in Procs, tid \in 1..MaxTickets, s \in NetStations, ty \in ScanTypes :
          StartScan(p, tid, s, ty)
    \/ \E p \in Procs, tid \in 1..MaxTickets : StartDetail(p, tid)
    \/ \E p \in Procs : DoScan(p)
    \/ \E p \in Procs : FfGet(p)
    \/ \E p \in Procs : FfCreate(p)
    \/ \E p \in Procs : FfSave(p)
    \/ \E p \in Procs : Audit(p)
    \/ \E p \in Procs : DoExpiry(p)

SpecConc == InitConc /\ [][NextConc]_vars

-----------------------------------------------------------------------------
(***************************************************************************)
(* find_shortest_path applied to bounded station data.                     *)
(***************************************************************************)

\* Station rows: unique_together (line, position); ids follow the Meta
\* ordering (line, position), which fixes one numbering per layout.
StationRow == [line : Lines, position : 0..MaxPos, is_active : BOOLEAN]

Before(a, b) == a.line < b.line \/ (a.line = b.line /\ a.position < b.position)

StationTables ==
    { st \in [Stations -> StationRow] :
        /\ \A a, b \in Stations : a < b => Before(st[a], st[b])
        /\ Cardinality({ a \in Stations : ~ st[a].is_active }) <= MaxInactive }

\* StationConnection rows: unique_together (from_station, to_station).
ConnRow == [from_station : Stations, to_station : Stations,
            connection_type : {"normal", "interchange"}]

SamePair(a, b) == a.from_station = b.from_station /\ a.to_station = b.to_station

ConnTables ==
    UNION { { c \in [1..n -> ConnRow] :
                \A i, j \in 1..n : i < j => ~ SamePair(c[i], c[j]) } : n \in 0..MaxConn }

\* MetroLine rows: a line is in service or not.
LineTables ==
    { ln \in [Lines -> [is_active : BOOLEAN, ticket_booking_enabled : {TRUE}]] :
        Cardinality({ l \in Lines : ~ ln[l].is_active }) <= MaxInactive }

InitPath ==
    /\ stations \in StationTables
    /\ lines \in LineTables
    /\ connections \in ConnTables
    /\ tickets = << >>
    /\ scans = << >>
    /\ footfall = << >>
    /\ balance = [ u \in Users |-> 0 ]
    /\ clock = 0
    /\ resp = Resp("", FALSE, Msg("", ""))
    /\ req = [ p \in Procs |-> IdleReq ]
    /\ route = NoRoute

\* A caller asks for the route between two stations (one call per run).
\* find_shortest_path has no raise statement and none of its lookups can
\* fail (adjacency.get has a default): every call ends in a return, so error
\* stays "none".
Query(origin, destination) ==
    /\ route = NoRoute
    /\ route' = [origin |-> origin, destination |-> destination,
                 path |-> find_shortest_path(stations, connections, origin, destination),
                 error |-> "none", fare |-> Null]
    /\ UNCHANGED << netvars, dbvars, clock, resp, req >>

NextPath == \E o \in Stations, d \in Stations : Query(o, d)

SpecPath == InitPath /\ [][NextPath]_vars

(***************************************************************************)
(* The first half of find_shortest_path on its own: the adjacency built    *)
(* from one set of station and connection rows.                            *)
(***************************************************************************)
BuildGraph ==
    /\ route = NoRoute
    /\ route' = [adjacency |-> BuildAdjacency(stations, connections)]
    /\ UNCHANGED << netvars, dbvars, clock, resp, req >>

NextGraph == BuildGraph

SpecGraph == InitPath /\ [][NextGraph]_vars



-----------------------------------------------------------------------------
(***************************************************************************)
(* calculate_fare applied to bounded paths.                                *)
(***************************************************************************)

\* The lists of stations of at most MaxPathLen elements (the empty list is
\* also what a caller holds when no route was found).
FarePaths == UNION { [1..n -> Stations] : n \in 0..MaxPathLen }

InitFare ==
    /\ InitNetwork
    /\ tickets = << >>
    /\ scans = << >>
    /\ footfall = << >>
    /\ balance = [ u \in Users |-> 0 ]
    /\ clock = 0
    /\ resp = Resp("", FALSE, Msg("", ""))
    /\ req = [ p \in Procs |-> IdleReq ]
    /\ \E path \in FarePaths : route = [NoRoute EXCEPT !.path = path]

\* A caller asks for the fare of the path it holds (one call per run).
Fare ==
    /\ route.fare = Null
    /\ route' = [route EXCEPT !.fare = calculate_fare(route.path)]
    /\ UNCHANGED << netvars, dbvars, clock, resp, req >>

NextFare == Fare

SpecFare == InitFare /\ [][NextFare]_vars

-----------------------------------------------------------------------------
(***************************************************************************)
(* The booking office: purchases and offline tickets for any pair of       *)
(* stations, while staff toggle line service and booking and edit the      *)
(* is_active flag of a station.                                            *)
(***************************************************************************)

\* The account create_offline_ticket books its tickets on.
OfflineUser == "offline_p"

\* User.objects.get_or_create(username=...): a new account starts with the
\* default balance 0.
get_or_create_user(bal, user) ==
    IF user \in DOMAIN bal THEN bal ELSE bal @@ (user :> 0)

\* Mutant of create_offline_ticket: the ticket is created 'active' and only
\* the entry is recorded, as if the passenger were still to travel.
create_offline_ticket_active(origin, destination) ==
    /\ origin \in ActiveStations(stations)
    /\ destination \in ActiveStations(stations)
    /\ origin # destination
    /\ Len(tickets) < MaxTickets
    /\ Len(scans) + 2 <= MaxScans
    /\ LET path == find_shortest_path(stations, connections, origin, destination)
           fare == calculate_fare(path)
       IN IF path = NoPath
          THEN /\ resp' = Resp("create_offline_ticket", FALSE, Msg("No route available between selected stations.", ""))
               /\ UNCHANGED << tickets, scans, balance >>
          ELSE /\ balance' = get_or_create_user(balance, OfflineUser)
               /\ tickets' = Append(tickets, NewTicket(OfflineUser, origin, destination,
                                                       fare, path, "active", clock))
               /\ scans' = TicketScanCreate(scans, Len(tickets) + 1, origin, "entry", TRUE,
                                            Msg("Offline ticket - Entry recorded", ""))
               /\ resp' = Resp("create_offline_ticket", TRUE, Msg("Offline ticket created. Fare: Rs. ", fare))
    /\ UNCHANGED << netvars, footfall, clock, req, route >>

\* create_offline_ticket (POST, valid form: two distinct active stations).
create_offline_ticket(origin, destination) ==
    /\ origin \in ActiveStations(stations)
    /\ destination \in ActiveStations(stations)
    /\ origin # destination
    /\ Len(tickets) < MaxTickets
    /\ Len(scans) + 2 <= MaxScans
    /\ LET path == find_shortest_path(stations, connections, origin, destination)
           fare == calculate_fare(path)
       IN IF path = NoPath
          THEN /\ resp' = Resp("create_offline_ticket", FALSE, Msg("No route available between selected stations.", ""))
               /\ UNCHANGED << tickets, scans, balance >>
          ELSE /\ balance' = get_or_create_user(balance, OfflineUser)
               /\ tickets' = Append(tickets, NewTicket(OfflineUser, origin, destination,
                                                       fare, path, "used", clock))
               /\ scans' = TicketScanCreate(
                               TicketScanCreate(scans, Len(tickets) + 1, origin, "entry", TRUE,
                                                Msg("Offline ticket - Entry recorded", "")),
                               Len(tickets) + 1, destination, "exit", TRUE,
                               Msg("Offline ticket - Exit recorded", ""))
               /\ resp' = Resp("create_offline_ticket", TRUE, Msg("Offline ticket created. Fare: Rs. ", fare))
    /\ UNCHANGED << netvars, footfall, clock, req, route >>

\* toggle_line_service: end_service on a running line, start_service on a
\* stopped one.
toggle_line_service(line_id) ==
    /\ lines' = [lines EXCEPT ![line_id].is_active = ~ @]
    /\ resp' = Resp("toggle_line_service", TRUE, Msg("", ""))
    /\ UNCHANGED << stations, connections, dbvars, clock, req, route >>

\* toggle_line_booking: disable_booking or enable_booking.
toggle_line_booking(line_id) ==
    /\ lines' = [lines EXCEPT ![line_id].ticket_booking_enabled = ~ @]
    /\ resp' = Resp("toggle_line_booking", TRUE, Msg("", ""))
    /\ UNCHANGED << stations, connections, dbvars, clock, req, route >>

\* The admin site saves a station with its is_active box changed.
StationAdmin(s) ==
    /\ s \in DOMAIN stations
    /\ stations' = [stations EXCEPT ![s].is_active = ~ @]
    /\ resp' = Resp("StationAdmin", TRUE, Msg("", ""))
    /\ UNCHANGED << lines, connections, dbvars, clock, req, route >>

NextBook ==
    \/ \E u \in Users, o \in Stations, d \in Stations : purchase_ticket(u, o, d)
    \/ \E o \in Stations, d \in Stations : create_offline_ticket(o, d)
    \/ \E l \in Lines : toggle_line_service(l)
    \/ \E l \in Lines : toggle_line_booking(l)
    \/ \E s \in Stations : StationAdmin(s)

SpecBook == Init /\ [][NextBook]_vars

(***************************************************************************)
(* One journey while the station data change: a passenger buys up to       *)
(* MaxTrips tickets and travels; staff edit stations and issue an offline  *)
(* ticket in between.                                                      *)
(***************************************************************************)
MaxTrips == 1

NextTrip ==
    \/ Tick
    \/ \E u \in Users, j \in Journeys :
          Len(tickets) < MaxTrips /\ purchase_ticket(u, j[1], j[2])
    \/ \E tid \in 1..MaxTrips + 1, s \in Stations, ty \in ScanTypes : scan_ticket(tid, s, ty)
    \/ \E tid \in 1..MaxTrips : ticket_detail(tid)
    \/ \E u \in Users : my_tickets(u)
    \/ \E s \in Stations : StationAdmin(s)
    \/ \E j \in Journeys :
          Len(tickets) <= MaxTrips /\ create_offline_ticket(j[1], j[2])

SpecTrip == Init /\ [][NextTrip]_vars

(***************************************************************************)
(* find_shortest_path while the station data are edited.  The function     *)
(* opens no transaction: the list of active stations is one query, and     *)
(* each station's neighbours are looked up by queries of their own inside  *)
(* the for loop, so a write by another request can land between the        *)
(* lookups of two stations.  A step is the loop body for one station.      *)
(***************************************************************************)

\* Line 1 holds stations 1, 2, 3 at positions 0, 1, 2 and line 2 holds
\* station 4; at most MaxInactive of them start out of service.
SnapStations ==
    { st \in [Stations -> StationRow] :
        /\ \A s \in 1..3 : st[s].line = 1 /\ st[s].position = s - 1
        /\ st[4].line = 2 /\ st[4].position = 0
        /\ Cardinality({ s \in Stations : ~ st[s].is_active }) <= MaxInactive }

InitSnap ==
    /\ stations \in SnapStations
    /\ lines = [ l \in Lines |-> [is_active |-> TRUE, ticket_booking_enabled |-> TRUE] ]
    /\ connections \in { c \in ConnTables :
                           \A i \in 1..Len(c) : c[i].connection_type = "interchange" }
    /\ tickets = << >>
    /\ scans = << >>
    /\ footfall = << >>
    /\ balance = [ u \in Users |-> 0 ]
    /\ clock = 0
    /\ resp = Resp("", FALSE, Msg("", ""))
    /\ req = [ p \in Procs |-> IdleReq ]
    /\ route = NoRoute

\* The elements of a set of stations in the Meta ordering (line, position),
\* which is the order of the ids.
RECURSIVE Ascending(_)
Ascending(S) ==
    IF S = {} THEN << >>
    ELSE LET least == CHOOSE x \in S : \A y \in S : x <= y
         IN << least >> \o Ascending(S \ {least})

\* The call starts: the origin == destination shortcut, or the query for
\* the active stations.
SnapBegin(origin, destination) ==
    /\ route = NoRoute
    /\ route' = IF origin = destination
                THEN [origin |-> origin, destination |-> destination, pc |-> "done",
                      todo |-> << >>, adjacency |-> << >>, before |-> stations,
                      path |-> << origin >>]
                ELSE [origin |-> origin, destination |-> destination, pc |-> "build",
                      todo |-> Ascending(ActiveStations(stations)), adjacency |-> << >>,
                      before |-> stations, path |-> NoPath]
    /\ UNCHANGED << netvars, dbvars, clock, resp, req >>

\* The loop body for the next station of the list: its neighbours are read
\* from the rows as they are now.
SnapStation ==
    /\ route # NoRoute
    /\ route.pc = "build"
    /\ route.todo # << >>
    /\ LET station == Head(route.todo) IN
       route' = [route EXCEPT
                   !.todo = Tail(@),
                   !.adjacency = @ @@ (station :> NeighborList(stations, connections, station))]
    /\ UNCHANGED << netvars, dbvars, clock, resp, req >>

\* The while loop on the adjacency that was built, and the return.
SnapSearch ==
    /\ route # NoRoute
    /\ route.pc = "build"
    /\ route.todo = << >>
    /\ route' = [route EXCEPT
                   !.pc = "done",
                   !.path = BFS(route.adjacency, << << route.origin >> >>, {},
                                route.destination)]
    /\ UNCHANGED << netvars, dbvars, clock, resp, req >>

\* Another request saves a station while the call is building its graph
\* (one write per run).
SnapWrite(s) ==
    /\ route # NoRoute
    /\ route.pc = "build"
    /\ resp.op = ""
    /\ StationAdmin(s)

NextSnap ==
    \/ \E o \in Stations, d \in Stations : SnapBegin(o, d)
    \/ SnapStation
    \/ SnapSearch
    \/ \E s \in Stations : SnapWrite(s)

SpecSnap == InitSnap /\ [][NextSnap]_vars

(***************************************************************************)
(* Concurrent purchases.  request.user is loaded when login_required reads *)
(* it, before the view body; the balance test and deduct_balance work on   *)
(* that in-memory copy, and User.save() writes the copy's balance.  The    *)
(* INSERT of the ticket and the UPDATE of the user are the two statements  *)
(* of one transaction.atomic block and become visible together when the    *)
(* block commits.  Each worker serves one purchase of the same account.    *)
(***************************************************************************)

\* login_required loads request.user; the form, the line test, the route,
\* the fare and the balance test follow on the request's own data.
BuyStart(p, user, origin, destination) ==
    /\ req[p].pc = "idle"
    /\ origin \in ActiveStations(stations)
    /\ destination \in ActiveStations(stations)
    /\ origin # destination
    /\ LET line == lines[stations[origin].line]
           path == find_shortest_path(stations, connections, origin, destination)
           fare == calculate_fare(path)
           fail(text) == [IdleReq EXCEPT !.pc = "done", !.op = "purchase",
                                         !.balance = balance[user],
                                         !.message = Msg(text, "")]
       IN req' = [req EXCEPT ![p] =
                    IF ~ line.is_active \/ ~ line.ticket_booking_enabled
                    THEN fail("Line is not available for booking.")
                    ELSE IF path = NoPath
                    THEN fail("No route available between selected stations.")
                    ELSE IF balance[user] < fare
                    THEN fail("Insufficient balance.")
                    ELSE [IdleReq EXCEPT !.pc = "create", !.op = "purchase",
                                         !.balance = balance[user],
                                         !.ticket = NewTicket(user, origin, destination,
                                                              fare, path, "none", Null)]]
    /\ UNCHANGED << netvars, dbvars, clock, resp, route >>

\* Ticket.objects.create(...), the first statement of the atomic block.
BuyCreate(p) ==
    /\ req[p].pc = "create"
    /\ req' = [req EXCEPT ![p].ticket.status = "active",
                          ![p].ticket.purchased_at = clock,
                          ![p].pc = "deduct"]
    /\ UNCHANGED << netvars, dbvars, clock, resp, route >>

\* request.user.deduct_balance(fare) on the in-memory user; the value it
\* returns is not read.
BuyDeduct(p) ==
    /\ req[p].pc = "deduct"
    /\ req' = [req EXCEPT ![p].success = (req[p].balance >= req[p].ticket.price),
                          ![p].balance = deduct_balance(@, req[p].ticket.price),
                          ![p].pc = "commit"]
    /\ UNCHANGED << netvars, dbvars, clock, resp, route >>

\* The atomic block ends: the ticket row and, if deduct_balance saved, the
\* user row are committed; then the response.
BuyCommit(p) ==
    /\ req[p].pc = "commit"
    /\ tickets' = Append(tickets, req[p].ticket)
    /\ balance' = IF req[p].success
                  THEN [balance EXCEPT ![req[p].ticket.user] = req[p].balance]
                  ELSE balance
    /\ req' = [req EXCEPT ![p].pc = "done", ![p].success = TRUE,
                          ![p].message = Msg("Ticket purchased successfully!", "")]
    /\ UNCHANGED << netvars, scans, footfall, clock, resp, route >>

NextBuy ==
    \/ \E p \in Procs, u \in Users, o \in Stations, d \in Stations : BuyStart(p, u, o, d)
    \/ \E p \in Procs : BuyCreate(p)
    \/ \E p \in Procs : BuyDeduct(p)
    \/ \E p \in Procs : BuyCommit(p)

SpecBuy == Init /\ [][NextBuy]_vars


(***************************************************************************)
(* Purchases and top-ups of one account in flight together.                *)
(* add_balance_view works on request.user as login_required loaded it:     *)
(* add_balance adds the amount to that copy and saves it, with no          *)
(* transaction around the two.                                             *)
(***************************************************************************)

\* The amounts AddBalanceForm lets through (min_value 10), bounded.
Amounts == {10}

\* login_required loads request.user; the form is valid.
TopUpStart(p, user, amount) ==
    /\ req[p].pc = "idle"
    /\ req' = [req EXCEPT ![p] = [IdleReq EXCEPT !.pc = "add", !.op = "add_balance",
                                     !.user = user, !.amount = amount,
                                     !.balance = balance[user]]]
    /\ UNCHANGED << netvars, dbvars, clock, resp, route >>

\* User.add_balance: self.balance += amount; self.save().
TopUpSave(p) ==
    /\ req[p].pc = "add"
    /\ balance' = [balance EXCEPT ![req[p].user] = req[p].balance + req[p].amount]
    /\ req' = [req EXCEPT ![p].balance = @ + req[p].amount, ![p].pc = "done",
                          ![p].success = TRUE]
    /\ UNCHANGED << netvars, tickets, scans, footfall, clock, resp, route >>

NextWallet ==
    \/ \E p \in Procs, u \in Users, j \in Journeys : BuyStart(p, u, j[1], j[2])
    \/ \E p \in Procs : BuyCreate(p)
    \/ \E p \in Procs : BuyDeduct(p)
    \/ \E p \in Procs : BuyCommit(p)
    \/ \E p \in Procs, u \in Users, a \in Amounts : TopUpStart(p, u, a)
    \/ \E p \in Procs : TopUpSave(p)

SpecWallet == Init /\ [][NextWallet]_vars

(***************************************************************************)
(* The balance of an account under sequential requests: top-ups,           *)
(* purchases, and calls of User.deduct_balance with any amount.            *)
(***************************************************************************)
MaxBalance == 60

\* The amounts deduct_balance is called with: the fares of the network.
Fares == {15, 20}

\* add_balance_view (POST, valid form): request.user.add_balance(amount).
add_balance_view(user, amount) ==
    /\ balance[user] + amount <= MaxBalance
    /\ balance' = [balance EXCEPT ![user] = @ + amount]
    /\ resp' = Resp("add_balance", TRUE, Msg("added to your account successfully!", amount))
    /\ UNCHANGED << netvars, tickets, scans, footfall, clock, req, route >>

\* A call user.deduct_balance(amount); the response carries what it returns.
DeductCall(user, amount) ==
    /\ balance' = [balance EXCEPT ![user] = deduct_balance(@, amount)]
    /\ resp' = Resp("deduct_balance", balance[user] >= amount, Msg("", amount))
    /\ UNCHANGED << netvars, tickets, scans, footfall, clock, req, route >>

NextPurse ==
    \/ \E u \in Users, a \in Amounts : add_balance_view(u, a)
    \/ \E u \in Users, a \in Fares : DeductCall(u, a)
    \/ \E u \in Users, j \in Journeys : purchase_ticket(u, j[1], j[2])

SpecPurse == Init /\ [][NextPurse]_vars


(***************************************************************************)
(* The while loops of the two find_shortest_path implementations, one      *)
(* iteration per step: the Django one (metro/views.py) on the adjacency    *)
(* dict it has built, the command-line one (main.py) on the connections    *)
(* of self.stations.  A graph maps each of its keys to a list of distinct  *)
(* neighbours; a neighbour may be the key itself or no key at all.         *)
(***************************************************************************)
NLoop == 3
MaxDeg == 2

LoopNodes == 1..NLoop

NeighborLists ==
    { l \in UNION { [1..n -> LoopNodes] : n \in 0..MaxDeg } :
        \A i, j \in 1..Len(l) : i < j => l[i] # l[j] }

Graphs == UNION { [K -> NeighborLists] : K \in SUBSET LoopNodes }

LoopIdle == [impl |-> "", graph |-> << >>, origin |-> Null, destination |-> Null,
             queue |-> << >>, visited |-> {}, new_path |-> NoPath,
             pc |-> "idle", path |-> NoPath, error |-> "none"]

InitLoop ==
    /\ InitNetwork
    /\ tickets = << >>
    /\ scans = << >>
    /\ footfall = << >>
    /\ balance = [ u \in Users |-> 0 ]
    /\ clock = 0
    /\ resp = Resp("", FALSE, Msg("", ""))
    /\ req = [ p \in Procs |-> IdleReq ]
    /\ \E g \in Graphs : route = [LoopIdle EXCEPT !.graph = g]

\* The statements before the while loop.  main.py returns None for a name
\* that is not in self.stations; both return the origin alone when the two
\* stations are the same.
LoopStart(impl, origin, destination) ==
    /\ route.pc = "idle"
    /\ route' =
         LET r == [route EXCEPT !.impl = impl, !.origin = origin,
                                !.destination = destination]
         IN IF impl = "cli" /\ (origin \notin DOMAIN route.graph
                                \/ destination \notin DOMAIN route.graph)
            THEN [r EXCEPT !.pc = "returned", !.path = NoPath]
            ELSE IF origin = destination
            THEN [r EXCEPT !.pc = "returned", !.path = << origin >>]
            ELSE [r EXCEPT !.pc = "loop", !.queue = << << origin >> >>]
    /\ UNCHANGED << netvars, dbvars, clock, resp, req >>

\* The inner for loop of main.py: new_path is assigned only for a neighbour
\* that is not in visited, and queue.append(new_path) runs for every
\* neighbour; new_path is a local of the function and keeps its value from
\* one iteration of the while loop to the next, and reading it before its
\* first assignment raises UnboundLocalError (NoPath stands for unbound).
RECURSIVE CliEnqueue(_, _, _, _, _, _)
CliEnqueue(queue, path, nbrs, visited, new_path, i) ==
    IF i > Len(nbrs) THEN [queue |-> queue, new_path |-> new_path, error |-> "none"]
    ELSE LET np == IF nbrs[i] \notin visited THEN Append(path, nbrs[i]) ELSE new_path
         IN IF np = NoPath
            THEN [queue |-> queue, new_path |-> new_path, error |-> "UnboundLocalError"]
            ELSE CliEnqueue(Append(queue, np), path, nbrs, visited, np, i + 1)

\* One iteration of the while loop of metro/views.py, or the return None
\* after it.
DjangoStep ==
    /\ route.pc = "loop"
    /\ route.impl = "django"
    /\ route' =
         IF route.queue = << >> THEN [route EXCEPT !.pc = "returned", !.path = NoPath]
         ELSE LET path == Head(route.queue)
                  current == path[Len(path)]
                  seen == route.visited \cup {current}
              IN IF current = route.destination
                 THEN [route EXCEPT !.pc = "returned", !.path = path, !.queue = Tail(@)]
                 ELSE IF current \notin route.visited
                 THEN [route EXCEPT !.visited = seen,
                                    !.queue = Enqueue(Tail(@), path,
                                                      AdjGet(route.graph, current), seen, 1)]
                 ELSE [route EXCEPT !.queue = Tail(@)]
    /\ UNCHANGED << netvars, dbvars, clock, resp, req >>

\* One iteration of the while loop of main.py, or the return None after it.
\* self.stations[current_station] raises KeyError for a name that was never
\* loaded.
CliStep ==
    /\ route.pc = "loop"
    /\ route.impl = "cli"
    /\ route' =
         IF route.queue = << >> THEN [route EXCEPT !.pc = "returned", !.path = NoPath]
         ELSE LET path == Head(route.queue)
                  current == path[Len(path)]
                  seen == route.visited \cup {current}
              IN IF current = route.destination
                 THEN [route EXCEPT !.pc = "returned", !.path = path, !.queue = Tail(@)]
                 ELSE IF current \in route.visited
                 THEN [route EXCEPT !.queue = Tail(@)]
                 ELSE IF current \notin DOMAIN route.graph
                 THEN [route EXCEPT !.visited = seen, !.queue = Tail(@),
                                    !.pc = "raised", !.error = "KeyError"]
                 ELSE LET r == CliEnqueue(Tail(route.queue), path, route.graph[current],
                                          seen, route.new_path, 1)
                      IN [route EXCEPT !.visited = seen, !.queue = r.queue,
                                       !.new_path = r.new_path,
                                       !.pc = IF r.error = "none" THEN "loop" ELSE "raised",
                                       !.error = r.error]
    /\ UNCHANGED << netvars, dbvars, clock, resp, req >>

NextLoop ==
    \/ \E impl \in {"django", "cli"}, o \in LoopNodes, d \in LoopNodes : LoopStart(impl, o, d)
    \/ DjangoStep
    \/ CliStep

SpecLoop == InitLoop /\ [][NextLoop]_vars

\* A call that has started goes on running: nothing in either loop waits.
SpecLoopFair == SpecLoop /\ WF_vars(NextLoop)




-----------------------------------------------------------------------------
(***************************************************************************)
(* Properties of the sequential system (Spec)                              *)
(***************************************************************************)

Terminal == {"used", "expired"}

AllowedMoves == { << "active", "in_use" >>, << "in_use", "used" >>,
                  << "active", "expired" >>, << "in_use", "expired" >> }

Late(tk, now) == now > tk.purchased_at + TICKET_EXPIRY_HOURS

LastScan == scans[Len(scans)]

\* C1: for tickets created by purchase, every change of the stored status
\* made by scan_entry, scan_exit or check_and_update_expiry is one of
\* active->in_use, in_use->used, active->expired, in_use->expired; a ticket
\* starts 'active', so 'used' is entered from 'in_use' only; and a status
\* of 'used' or 'expired' never changes again.
C1_StatusMoves ==
    [][ /\ Len(tickets') >= Len(tickets)
        /\ \A i \in 1..Len(tickets') :
             IF i > Len(tickets) THEN tickets'[i].status = "active"
             ELSE LET a == tickets[i].status
                      b == tickets'[i].status
                  IN /\ a # b => << a, b >> \in AllowedMoves
                     /\ (b = "used" /\ a # "used") => a = "in_use"
                     /\ a \in Terminal => b = a ]_vars

\* C1 witness: a ticket went active -> in_use -> used and a later scan of
\* it was refused.
C1_Witness ==
    \E i \in 1..Len(tickets), k \in 1..Len(scans) :
        /\ tickets[i].status = "used"
        /\ scans[k].ticket = i
        /\ ~ scans[k].success
        /\ scans[k].message = Msg("Ticket is", "used")

\* C5: every scan_ticket attempt on an existing ticket appends exactly one
\* TicketScan row, whose ticket, station and scan type are those of the
\* attempt and whose success flag and message are the pair scan_entry /
\* scan_exit returned (which is also what the caller is told).
C5_OneAuditRow ==
    [][ \A tid \in 1..MaxTickets, s \in NetStations, ty \in ScanTypes :
          (scan_ticket(tid, s, ty) /\ TicketExists(tid)) =>
              LET r == PerformScan(tickets[tid], s, ty, clock) IN
              /\ Len(scans') = Len(scans) + 1
              /\ SubSeq(scans', 1, Len(scans)) = scans
              /\ scans'[Len(scans')] = [ticket |-> tid, station |-> s, scan_type |-> ty,
                                        success |-> r.success, message |-> r.message]
              /\ resp'.success = r.success
              /\ resp'.message = r.message ]_vars

\* C5 witness: the audit table holds a row of a successful attempt and a
\* row of a refused one.
C5_Witness ==
    \E j \in 1..Len(scans), k \in 1..Len(scans) :
        /\ scans[j].success
        /\ ~ scans[k].success
        /\ scans[k].message.text \in {"Invalid exit station. Ticket is to",
                                      "Invalid entry station. Ticket is from"}

\* C6: an entry scan of an active ticket that is not past its expiry time,
\* at a station other than the origin, is refused, leaves the ticket
\* 'active' with no entry_time, changes no footfall counter and appends
\* exactly one TicketScan row with success = FALSE.
C6_WrongEntryStation ==
    [][ \A tid \in 1..MaxTickets, s \in NetStations :
          ( /\ scan_ticket(tid, s, "entry")
            /\ TicketExists(tid)
            /\ tickets[tid].status = "active"
            /\ ~ Late(tickets[tid], clock)
            /\ s # tickets[tid].origin ) =>
              /\ ~ resp'.success
              /\ tickets'[tid].status = "active"
              /\ tickets'[tid].entry_time = Null
              /\ tickets' = tickets
              /\ footfall' = footfall
              /\ Len(scans') = Len(scans) + 1
              /\ scans'[Len(scans')].ticket = tid
              /\ ~ scans'[Len(scans')].success ]_vars

\* C6 witness: the last request was an entry scan refused for its station,
\* and the ticket is still active.
C6_Witness ==
    /\ resp.op = "scan_ticket"
    /\ ~ resp.success
    /\ resp.message.text = "Invalid entry station. Ticket is from"
    /\ Len(scans) > 0
    /\ LastScan.scan_type = "entry"
    /\ LastScan.station # tickets[LastScan.ticket].origin
    /\ tickets[LastScan.ticket].status = "active"

\* C7 as stated: a scan that fails its guard (wrong station, wrong status,
\* ticket past its expiry time) changes neither the ticket rows nor the
\* footfall counters.
C7_FailedScanChangesNothing ==
    [][ \A tid \in 1..MaxTickets, s \in NetStations, ty \in ScanTypes :
          (scan_ticket(tid, s, ty) /\ TicketExists(tid) /\ ~ resp'.success) =>
              /\ tickets' = tickets
              /\ footfall' = footfall ]_vars

\* C7 amended: a scan that fails its guard changes no footfall counter, no
\* entry_time or exit_time and no other field of any ticket; the one change
\* a failed scan can make is the status write active -> expired of an entry
\* scan of an active ticket past its expiry time.
C7_FailedScanFrame ==
    [][ \A tid \in 1..MaxTickets, s \in NetStations, ty \in ScanTypes :
          (scan_ticket(tid, s, ty) /\ TicketExists(tid) /\ ~ resp'.success) =>
              /\ footfall' = footfall
              /\ Len(tickets') = Len(tickets)
              /\ \A i \in 1..Len(tickets) :
                    /\ [tickets'[i] EXCEPT !.status = tickets[i].status] = tickets[i]
                    /\ tickets'[i].status # tickets[i].status =>
                          /\ i = tid
                          /\ ty = "entry"
                          /\ tickets[i].status = "active"
                          /\ Late(tickets[i], clock)
                          /\ tickets'[i].status = "expired"
              /\ ( ~ (ty = "entry" /\ tickets[tid].status = "active"
                                   /\ Late(tickets[tid], clock))
                   => tickets' = tickets ) ]_vars

\* C7 witness: refused scans of each kind have happened on one ticket: an
\* entry at a wrong station, the entry scan past the expiry time that set
\* it to 'expired', and a scan refused for that status.
C7_Witness ==
    \E i, j, k \in 1..Len(scans) :
        /\ i < j /\ j < k
        /\ scans[i].message.text = "Invalid entry station. Ticket is from"
        /\ scans[j].message.text = "Ticket has expired"
        /\ scans[k].message = Msg("Ticket is", "expired")
        /\ scans[i].ticket = scans[j].ticket
        /\ scans[k].ticket = scans[j].ticket
        /\ tickets[scans[j].ticket].status = "expired"

\* C8: no entry scan succeeds later than purchased_at + TICKET_EXPIRY_HOURS;
\* a late entry attempt on an active ticket, at any station, sets the status
\* to 'expired', is refused and records no footfall; an entry attempt at the
\* origin exactly at purchased_at + TICKET_EXPIRY_HOURS succeeds.
C8_NoLateEntry ==
    [][ \A tid \in 1..MaxTickets, s \in NetStations :
          (scan_ticket(tid, s, "entry") /\ TicketExists(tid)) =>
              LET tk == tickets[tid] IN
              /\ resp'.success => clock <= tk.purchased_at + TICKET_EXPIRY_HOURS
              /\ (tk.status = "active" /\ clock > tk.purchased_at + TICKET_EXPIRY_HOURS) =>
                    /\ tickets'[tid].status = "expired"
                    /\ ~ resp'.success
                    /\ footfall' = footfall
              /\ ( /\ tk.status = "active"
                   /\ clock = tk.purchased_at + TICKET_EXPIRY_HOURS
                   /\ s = tk.origin ) =>
                    /\ resp'.success
                    /\ tickets'[tid].status = "in_use"
                    /\ tickets'[tid].entry_time = clock ]_vars

\* C8 witness: one ticket was scanned in exactly at its expiry time, and a
\* late entry attempt away from the origin expired another.
C8_Witness ==
    \E i, j \in 1..Len(tickets), k \in 1..Len(scans) :
        /\ tickets[i].status = "in_use"
        /\ tickets[i].entry_time = tickets[i].purchased_at + TICKET_EXPIRY_HOURS
        /\ tickets[j].status = "expired"
        /\ scans[k].ticket = j
        /\ scans[k].station # tickets[j].origin
        /\ scans[k].message.text = "Ticket has expired"

JourneyDone(tid) ==
    \E j, k \in 1..Len(scans) :
        /\ j < k
        /\ scans[j] = [ticket |-> tid, station |-> tickets[tid].origin,
                       scan_type |-> "entry", success |-> TRUE,
                       message |-> Msg("Entry successful", "")]
        /\ scans[k] = [ticket |-> tid, station |-> tickets[tid].destination,
                       scan_type |-> "exit", success |-> TRUE,
                       message |-> Msg("Exit successful", "")]

\* C17: once a ticket has had a successful entry scan at its origin and
\* then a successful exit scan at its destination, every further scan of it
\* (entry or exit, at any station) is refused, leaves the status 'used' and
\* every ticket row as it was, changes no footfall counter, and appends one
\* TicketScan row with success = FALSE.
C17_UsedTicketRefused ==
    [][ \A tid \in 1..MaxTickets :
          (TicketExists(tid) /\ JourneyDone(tid)) =>
              \A s \in NetStations, ty \in ScanTypes :
                  scan_ticket(tid, s, ty) =>
                      /\ ~ resp'.success
                      /\ tickets[tid].status = "used"
                      /\ tickets'[tid].status = "used"
                      /\ tickets'[tid].entry_time = tickets[tid].entry_time
                      /\ tickets'[tid].exit_time = tickets[tid].exit_time
                      /\ tickets' = tickets
                      /\ footfall' = footfall
                      /\ Len(scans') = Len(scans) + 1
                      /\ SubSeq(scans', 1, Len(scans)) = scans
                      /\ scans'[Len(scans')] =
                            [ticket |-> tid, station |-> s, scan_type |-> ty,
                             success |-> FALSE, message |-> Msg("Ticket is", "used")] ]_vars

\* C17 witness: a third scan of a ticket, at its destination, followed its
\* entry and its exit and was refused.
C17_Witness ==
    /\ Len(scans) = 3
    /\ JourneyDone(scans[3].ticket)
    /\ ~ scans[3].success
    /\ scans[3].station = tickets[scans[3].ticket].destination
    /\ scans[1].ticket = scans[3].ticket
    /\ scans[2].ticket = scans[3].ticket
    /\ resp = Resp("scan_ticket", FALSE, Msg("Ticket is", "used"))

\* C18: a scan request whose ticket id matches no ticket is answered with
\* the ticket-not-found message and changes nothing: every Ticket row, the
\* TicketScan table and every DailyFootfall counter stay as they were.
C18_UnknownTicket ==
    [][ \A tid \in 1..(MaxTickets + 1), s \in NetStations, ty \in ScanTypes :
          (~ TicketExists(tid) /\ scan_ticket(tid, s, ty)) =>
              /\ resp' = Resp("scan_ticket", FALSE, Msg("Invalid ticket ID.", ""))
              /\ tickets' = tickets
              /\ scans' = scans
              /\ footfall' = footfall
              /\ balance' = balance ]_vars

\* C18 witness: the last request named an unknown ticket id while the
\* database held a ticket in use, its audit row and its footfall row.
C18_Witness ==
    /\ resp = Resp("scan_ticket", FALSE, Msg("Invalid ticket ID.", ""))
    /\ \E i \in 1..Len(tickets) : tickets[i].status = "in_use"
    /\ Len(scans) > 0
    /\ Len(footfall) > 0

-----------------------------------------------------------------------------
(***************************************************************************)
(* Properties of the concurrent system (SpecConc)                          *)
(***************************************************************************)

\* The rows of the audit table for one ticket, scan type and outcome.
ScanRows(tid, ty, ok) ==
    { k \in 1..Len(scans) : /\ scans[k].ticket = tid
                            /\ scans[k].scan_type = ty
                            /\ scans[k].success = ok }

\* The sum of the exit counters of a station over all dates.
RECURSIVE SumExit(_, _)
SumExit(ids, ff) ==
    IF ids = {} THEN 0
    ELSE LET k == CHOOSE x \in ids : TRUE
         IN ff[k].exit_count + SumExit(ids \ {k}, ff)

ExitCount(station) ==
    SumExit({ k \in 1..Len(footfall) : footfall[k].station = station }, footfall)

\* C2: when two exit scans at the destination have both been served for
\* the same ticket, which was 'in_use' when the first of them loaded it,
\* exactly one of them returned success; the ticket is 'used', one exit was
\* counted at the station, and each request wrote its own TicketScan row,
\* one successful and one refused.
C2_ExactlyOneExit ==
    \A p, q \in Procs :
        ( /\ p # q
          /\ req[p].pc = "done" /\ req[q].pc = "done"
          /\ req[p].op = "exit" /\ req[q].op = "exit"
          /\ req[p].tid = req[q].tid
          /\ req[p].station = tickets[req[p].tid].destination
          /\ req[q].station = req[p].station
          /\ req[p].seen = "in_use" ) =>
            /\ req[p].success # req[q].success
            /\ tickets[req[p].tid].status = "used"
            /\ ExitCount(req[p].station) = 1
            /\ Cardinality(ScanRows(req[p].tid, "exit", TRUE)) = 1
            /\ Cardinality(ScanRows(req[p].tid, "exit", FALSE)) = 1

\* C3: when every worker has served a successful entry scan, all of
\* distinct tickets at the same station on the same date, the entry_count
\* stored for that station and date is the number of those scans.
C3_NoLostEntry ==
    ( /\ \A p \in Procs : /\ req[p].pc = "done"
                          /\ req[p].op = "entry"
                          /\ req[p].success
      /\ \A p, q \in Procs : /\ req[p].key = req[q].key
                             /\ (p # q => req[p].tid # req[q].tid) ) =>
        \A p \in Procs :
            footfall[GetRow(footfall, req[p].key)].entry_count = Cardinality(Procs)

\* C4: under concurrent scan_entry, scan_exit and check_and_update_expiry
\* requests on a ticket, the stored status never leaves 'used' or
\* 'expired', a stored entry_time or exit_time is never overwritten, and
\* at most one entry scan and at most one exit scan of a ticket succeed.
C4_GuardAndWriteAtomic ==
    [][ \A i \in 1..Len(tickets) :
          /\ tickets[i].status \in Terminal => tickets'[i].status = tickets[i].status
          /\ tickets[i].entry_time # Null => tickets'[i].entry_time = tickets[i].entry_time
          /\ tickets[i].exit_time # Null => tickets'[i].exit_time = tickets[i].exit_time
          /\ Cardinality({ k \in 1..Len(scans') : /\ scans'[k].ticket = i
                                                  /\ scans'[k].scan_type = "entry"
                                                  /\ scans'[k].success }) <= 1
          /\ Cardinality({ k \in 1..Len(scans') : /\ scans'[k].ticket = i
                                                  /\ scans'[k].scan_type = "exit"
                                                  /\ scans'[k].success }) <= 1 ]_vars

\* C19: the footfall write of each successful entry scan raises entry_count
\* of the row of (scan station, today) by exactly one, that of each
\* successful exit scan raises exit_count by exactly one, and no other row
\* or counter changes; entry_count and exit_count of every row are never
\* negative, and no step lowers or resets a counter or removes a row.
C19_FootfallCounts ==
    [][ /\ Len(footfall') >= Len(footfall)
        /\ \A id \in 1..Len(footfall) :
              /\ footfall'[id].station = footfall[id].station
              /\ footfall'[id].date = footfall[id].date
              /\ footfall'[id].entry_count >= footfall[id].entry_count
              /\ footfall'[id].exit_count >= footfall[id].exit_count
        /\ \A id \in 1..Len(footfall') :
              /\ footfall'[id].entry_count >= 0
              /\ footfall'[id].exit_count >= 0
        /\ \A p \in Procs :
              FfSave(p) =>
                  LET id == req[p].rowid
                      old == footfall[id]
                  IN /\ req[p].success
                     /\ old.station = req[p].station
                     /\ Len(footfall') = Len(footfall)
                     /\ \A other \in (1..Len(footfall)) \ {id} :
                           footfall'[other] = footfall[other]
                     /\ req[p].op = "entry" =>
                           footfall'[id] = [old EXCEPT !.entry_count = @ + 1]
                     /\ req[p].op = "exit" =>
                           footfall'[id] = [old EXCEPT !.exit_count = @ + 1] ]_vars

\* C20: the table never holds two DailyFootfall rows with the same station
\* and date, also when the first scans of the day at a station are served
\* concurrently; a row appears only in the footfall step of a scan that
\* succeeded, for that scan's station and the date that scan read from the
\* clock; and for every row a successful scan at its station is recorded or
\* in progress.
C20_OneRowPerDay ==
    [][ /\ \A i, j \in 1..Len(footfall') :
              (/\ footfall'[i].station = footfall'[j].station
               /\ footfall'[i].date = footfall'[j].date) => i = j
        /\ \A id \in (Len(footfall) + 1)..Len(footfall') :
              \E p \in Procs :
                  /\ req[p].op \in ScanTypes
                  /\ req[p].success
                  /\ req'[p].rowid = id
                  /\ req[p].pc = "ff_create"
                  /\ footfall'[id].station = req[p].station
                  /\ footfall'[id].date = req[p].key[2]
                  /\ req[p].key[2] <= Date(clock)
        /\ \A id \in 1..Len(footfall') :
              \/ \E k \in 1..Len(scans') : /\ scans'[k].success
                                            /\ scans'[k].station = footfall'[id].station
              \/ \E p \in Procs : /\ req'[p].success
                                   /\ req'[p].rowid = id
                                   /\ req'[p].station = footfall'[id].station
                                   /\ req'[p].key[2] = footfall'[id].date ]_vars

\* C20 witness: two successful scans at one station found no row for the
\* day; one of them has inserted the row, the other is about to insert.
C20_Witness ==
    \E p, q \in Procs :
        /\ p # q
        /\ req[p].pc = "ff_create"
        /\ req[q].pc \in {"ff_save", "audit", "done"}
        /\ req[q].key = req[p].key
        /\ req[p].success /\ req[q].success
        /\ req[q].rowid \in Matching(footfall, req[p].key)
        /\ Cardinality(Matching(footfall, req[p].key)) = 1

-----------------------------------------------------------------------------
(***************************************************************************)
(* Properties of find_shortest_path (SpecPath)                             *)
(***************************************************************************)

\* b is listed as a neighbour of a in the adjacency adj.
Edge(adj, a, b) == a \in DOMAIN adj /\ InSeq(b, adj[a])

\* The stations some walk of at most k edges of adj leads to from o.
RECURSIVE Within(_, _, _)
Within(adj, o, k) ==
    IF k = 0 THEN {o}
    ELSE LET W == Within(adj, o, k - 1)
         IN W \cup { b \in Stations : \E a \in W : Edge(adj, a, b) }

\* Some walk leads from o to d (a shortest one repeats no station).
Reachable(adj, o, d) == d \in Within(adj, o, NStations)

\* The least number of edges of a walk from o to d.
Hops(adj, o, d) == CHOOSE k \in 0..NStations :
                      /\ d \in Within(adj, o, k)
                      /\ \A j \in 0..(k - 1) : d \notin Within(adj, o, j)

IsWalk(adj, path) == \A i \in 1..(Len(path) - 1) : Edge(adj, path[i], path[i + 1])

Queried == route.origin # Null

\* C10: for two distinct active stations joined by some walk in the
\* adjacency find_shortest_path builds, the path returned starts at the
\* origin, ends at the destination, steps along adjacency edges only, and
\* no walk between the two has fewer hops.
C10_ShortestPath ==
    ( /\ Queried
      /\ route.origin # route.destination
      /\ stations[route.origin].is_active
      /\ stations[route.destination].is_active ) =>
        LET adj == BuildAdjacency(stations, connections) IN
        Reachable(adj, route.origin, route.destination) =>
            /\ route.path # NoPath
            /\ route.path[1] = route.origin
            /\ route.path[Len(route.path)] = route.destination
            /\ IsWalk(adj, route.path)
            /\ Len(route.path) - 1 = Hops(adj, route.origin, route.destination)

\* C10 witness: a route of three hops that crosses from one line to the
\* other, in a graph where the destination has another neighbour-of
\* station that the origin reaches too.
C10_Witness ==
    /\ Queried
    /\ stations[route.origin].is_active
    /\ stations[route.destination].is_active
    /\ Len(route.path) = 4
    /\ \E i \in 1..3 : stations[route.path[i]].line # stations[route.path[i + 1]].line
    /\ LET adj == BuildAdjacency(stations, connections) IN
       \E a \in Stations :
          /\ Edge(adj, a, route.destination)
          /\ a # route.path[3]
          /\ Reachable(adj, route.origin, a)

\* The walks of exactly k edges of adj that start at o.
RECURSIVE WalksFrom(_, _, _)
WalksFrom(adj, o, k) ==
    IF k = 0 THEN { << o >> }
    ELSE UNION { { Append(w, b) : b \in { x \in Stations : Edge(adj, w[Len(w)], x) } } :
                 w \in WalksFrom(adj, o, k - 1) }

\* The place of x in a neighbour list.
IndexOf(seq, x) == CHOOSE i \in 1..Len(seq) :
                      /\ seq[i] = x
                      /\ \A j \in 1..(i - 1) : seq[j] # x

\* The first index at which two sequences of equal length differ.
FirstDiff(P, Q) == CHOOSE i \in 1..Len(P) :
                      /\ P[i] # Q[i]
                      /\ \A j \in 1..(i - 1) : P[j] = Q[j]

\* b is the next or the previous station of a on a's line.
LineNeighbor(st, a, b) == b = get_next_station(st, a) \/ b = get_previous_station(st, a)

\* The walks from the origin to the destination with as many hops as the
\* returned path, the returned path left out.
OtherShortest(adj) ==
    { Q \in WalksFrom(adj, route.origin, Len(route.path) - 1) :
        Q[Len(Q)] = route.destination /\ Q # route.path }

\* C11: when find_shortest_path returns a path between two distinct
\* stations, every other walk from the origin to the destination with the
\* same hop count leaves the returned path at a station whose neighbour list
\* names the returned path's next station earlier than the other walk's; so
\* where the other walk goes on along the line, the returned path does too;
\* and a second call on the same station and connection rows returns the
\* same path.
C11_TieBreak ==
    (Queried /\ route.origin # route.destination /\ route.path # NoPath) =>
        LET adj == BuildAdjacency(stations, connections)
            P == route.path
        IN /\ \A Q \in OtherShortest(adj) :
                 LET i == FirstDiff(P, Q)
                     s == P[i - 1]
                 IN /\ i > 1
                    /\ IndexOf(adj[s], P[i]) < IndexOf(adj[s], Q[i])
                    /\ LineNeighbor(stations, s, Q[i]) => LineNeighbor(stations, s, P[i])
           /\ find_shortest_path(stations, connections, route.origin,
                                 route.destination) = P

\* C11 witness: the returned path goes on along the line at a station where
\* another walk of the same hop count branches into an interchange.
C11_Witness ==
    /\ Queried
    /\ route.origin # route.destination
    /\ route.path # NoPath
    /\ LET adj == BuildAdjacency(stations, connections)
           P == route.path
       IN \E Q \in OtherShortest(adj) :
             LET i == FirstDiff(P, Q)
             IN /\ LineNeighbor(stations, P[i - 1], P[i])
                /\ ~ LineNeighbor(stations, P[i - 1], Q[i])

\* The stations of a line at a position that are active.
ActiveAt(st, line, position) ==
    { x \in DOMAIN st : /\ st[x].line = line
                         /\ st[x].position = position
                         /\ st[x].is_active }

\* A set of at most one station as a sequence.
AsSeq(S) == IF S = {} THEN << >> ELSE << CHOOSE x \in S : TRUE >>

\* A sequence without the repeats of its elements (first occurrences kept).
RECURSIVE Dedup(_)
Dedup(seq) ==
    IF seq = << >> THEN << >>
    ELSE LET front == Dedup(SubSeq(seq, 1, Len(seq) - 1))
             last == seq[Len(seq)]
         IN IF InSeq(last, front) THEN front ELSE Append(front, last)

IsInterchangeFrom(s, c) == c.from_station = s /\ c.connection_type = "interchange"

\* The to_station of the interchange connections leaving s, in recorded order.
RECURSIVE InterchangeTargets(_, _)
InterchangeTargets(conns, s) ==
    IF conns = << >> THEN << >>
    ELSE LET rest == InterchangeTargets(Tail(conns), s)
         IN IF IsInterchangeFrom(s, Head(conns))
            THEN << Head(conns).to_station >> \o rest
            ELSE rest

\* The neighbour list the construction rule prescribes for station s.
ExpectedNeighbors(st, conns, s) ==
    Dedup(AsSeq(ActiveAt(st, st[s].line, st[s].position + 1))
          \o AsSeq(ActiveAt(st, st[s].line, st[s].position - 1))
          \o InterchangeTargets(conns, s))

OutOfService(s) == ~ stations[s].is_active \/ ~ lines[stations[s].line].is_active

\* C13: the graph a find_shortest_path call has used holds no inactive
\* station and no station of an inactive line, neither as a key of the
\* adjacency nor in a neighbour list (the to_station of an interchange
\* connection included), and no such station is in a returned path of two
\* or more stations.
C13_NoInactiveInGraph ==
    Queried =>
        LET adj == BuildAdjacency(stations, connections) IN
        /\ \A s \in DOMAIN adj :
              /\ ~ OutOfService(s)
              /\ \A i \in 1..Len(adj[s]) : ~ OutOfService(adj[s][i])
        /\ Len(route.path) >= 2 =>
              \A i \in 1..Len(route.path) : ~ OutOfService(route.path[i])

\* C14: a find_shortest_path call whose origin or destination is not an
\* active station ends in an invalid-station error (and so returns neither
\* a path nor None).
C14_InvalidStationError ==
    ( /\ Queried
      /\ \/ ~ stations[route.origin].is_active
         \/ ~ stations[route.destination].is_active ) =>
        route.error = "InvalidStationError"

\* C15: find_shortest_path(X, X) returns the path << X >> for every active
\* station X, and find_shortest_path(X, Y) returns None when no walk along
\* the edges of the adjacency leads from X to Y.
C15_SelfAndNoRoute ==
    Queried =>
        LET adj == BuildAdjacency(stations, connections) IN
        /\ (route.origin = route.destination /\ stations[route.origin].is_active) =>
              route.path = << route.origin >>
        /\ ~ Reachable(adj, route.origin, route.destination) =>
              route.path = NoPath

\* C15 witness: None was returned for two active stations of which the
\* origin has a neighbour and the destination leads to the origin, but no
\* walk leads from the origin to the destination.
C15_Witness ==
    /\ Queried
    /\ route.path = NoPath
    /\ stations[route.origin].is_active
    /\ stations[route.destination].is_active
    /\ LET adj == BuildAdjacency(stations, connections) IN
       /\ adj[route.origin] # << >>
       /\ Reachable(adj, route.destination, route.origin)
       /\ ~ Reachable(adj, route.origin, route.destination)

-----------------------------------------------------------------------------
(***************************************************************************)
(* Properties of calculate_fare (SpecFare)                                 *)
(***************************************************************************)

\* The fare as a function of the number of stations of the path alone.
FareOfLength(n) ==
    IF n < 2 THEN 0 ELSE TICKET_BASE_FARE + TICKET_PER_STATION_FARE * (n - 1)

\* C16: a calculate_fare call returns 0 for an empty path and for a path of
\* one station, and TICKET_BASE_FARE + TICKET_PER_STATION_FARE * (len - 1)
\* for a path of two or more stations, which is 30 for five stations with
\* base fare 10 and per-station fare 5; the result is a function of the
\* length of the path only, and the call leaves the path, the station data
\* and the database as they were.
C16_Fare ==
    [][ route'.fare # route.fare =>
          /\ route'.fare = FareOfLength(Len(route.path))
          /\ Len(route.path) < 2 => route'.fare = 0
          /\ ( /\ Len(route.path) = 5
               /\ TICKET_BASE_FARE = 10
               /\ TICKET_PER_STATION_FARE = 5 ) => route'.fare = 30
          /\ route'.path = route.path
          /\ UNCHANGED << netvars, dbvars >> ]_vars

\* C16 witness: the fare of a path of five stations was computed.
C16_Witness ==
    /\ Len(route.path) = 5
    /\ route.fare = TICKET_BASE_FARE + 4 * TICKET_PER_STATION_FARE

-----------------------------------------------------------------------------
(***************************************************************************)
(* Properties of the booking office (SpecBook).                            *)
(***************************************************************************)

\* The audit rows of a ticket.
ScansOf(rows, tid) == SelectSeq(rows, LAMBDA r : r.ticket = tid)

\* C21: create_offline_ticket either writes nothing, or appends one ticket
\* in status 'used' together with one successful entry row at the origin and
\* one successful exit row at the destination and nothing else; it changes
\* no footfall row, and a ticket of the offline account is 'used' and owns
\* exactly those two rows from its first moment on.
C21_OfflineTicket ==
    [][ /\ \A o \in Stations, d \in Stations :
            create_offline_ticket(o, d) =>
                /\ footfall' = footfall
                /\ \/ tickets' = tickets /\ scans' = scans
                   \/ LET tid == Len(tickets) + 1 IN
                      /\ Len(tickets') = tid
                      /\ SubSeq(tickets', 1, Len(tickets)) = tickets
                      /\ tickets'[tid].status = "used"
                      /\ tickets'[tid].origin = o
                      /\ tickets'[tid].destination = d
                      /\ Len(scans') = Len(scans) + 2
                      /\ SubSeq(scans', 1, Len(scans)) = scans
                      /\ scans'[Len(scans) + 1] =
                            [ticket |-> tid, station |-> o, scan_type |-> "entry",
                             success |-> TRUE,
                             message |-> Msg("Offline ticket - Entry recorded", "")]
                      /\ scans'[Len(scans) + 2] =
                            [ticket |-> tid, station |-> d, scan_type |-> "exit",
                             success |-> TRUE,
                             message |-> Msg("Offline ticket - Exit recorded", "")]
        /\ \A tid \in 1..Len(tickets') :
            tickets'[tid].user = OfflineUser =>
                /\ tickets'[tid].status = "used"
                /\ Len(ScansOf(scans', tid)) = 2 ]_vars

\* An offline ticket has been created and the request before it was a
\* purchase, so that the offline ticket is not the first row of its table.
C21_Witness ==
    /\ resp.op = "create_offline_ticket"
    /\ resp.success
    /\ Len(tickets) = 2
    /\ tickets[2].user = OfflineUser
    /\ tickets[2].status = "used"
    /\ Len(scans) = 2

\* C23: a purchase_ticket request either writes nothing, or appends one
\* ticket in status 'active' whose path is the route find_shortest_path
\* returns for the two stations on the data of that moment (a walk of the
\* adjacency from the origin to the destination) and whose price is the fare
\* of that route, and takes that price from the balance; when there is no
\* route it writes nothing.
C23_PurchasedTicket ==
    [][ \A u \in Users, o \in Stations, d \in Stations :
            purchase_ticket(u, o, d) =>
                LET p == find_shortest_path(stations, connections, o, d)
                    tid == Len(tickets) + 1
                IN \/ tickets' = tickets /\ balance' = balance
                   \/ /\ p # NoPath
                      /\ Len(tickets') = tid
                      /\ SubSeq(tickets', 1, Len(tickets)) = tickets
                      /\ tickets'[tid].status = "active"
                      /\ tickets'[tid].user = u
                      /\ tickets'[tid].path = p
                      /\ p[1] = o
                      /\ p[Len(p)] = d
                      /\ IsWalk(BuildAdjacency(stations, connections), p)
                      /\ tickets'[tid].price = FareOfLength(Len(p))
                      /\ balance' = [balance EXCEPT ![u] = @ - FareOfLength(Len(p))] ]_vars

\* A ticket for 1 -> 3 has been bought while station 2 was in service, after
\* an offline ticket; station 2 is out of service now, so that the same
\* request would find no route.
C23_Witness ==
    /\ Len(tickets) = 2
    /\ tickets[2].user = "u1"
    /\ tickets[2].status = "active"
    /\ tickets[2].path = << 1, 2, 3 >>
    /\ balance["u1"] = InitialBalance - tickets[2].price
    /\ ~ stations[2].is_active
    /\ find_shortest_path(stations, connections, 1, 3) = NoPath

-----------------------------------------------------------------------------
(***************************************************************************)
(* Properties of a journey under changing station data (SpecTrip).         *)
(***************************************************************************)

\* The columns of a ticket that are written once, when the row is created.
Fixed(tk) == << tk.price, tk.origin, tk.destination, tk.path, tk.user, tk.purchased_at >>

\* C22: no step (a scan that succeeds or fails, an expiry check through
\* ticket_detail or my_tickets, a station edit, the passing of time) changes
\* the price, origin, destination, path, user or purchased_at of a ticket
\* that exists.
C22_FixedAtCreation ==
    [][ \A tid \in 1..Len(tickets) :
            /\ tid <= Len(tickets')
            /\ Fixed(tickets'[tid]) = Fixed(tickets[tid]) ]_vars

\* A ticket bought for 1 -> 3 through station 2 has been scanned in and out
\* after station 2 was taken out of service: the stored path and price are
\* those of the purchase, and the data of now give no route at all.
C22_Witness ==
    /\ Len(tickets) = 1
    /\ tickets[1].status = "used"
    /\ tickets[1].path = << 1, 2, 3 >>
    /\ tickets[1].price = calculate_fare(<< 1, 2, 3 >>)
    /\ ~ stations[2].is_active
    /\ find_shortest_path(stations, connections, 1, 3) = NoPath
    /\ resp.op = "scan_ticket"
    /\ resp.success

\* C29: every step of the purchase, scan, expiry and offline-ticket
\* handlers keeps each ticket row (as many rows as before or more, each old
\* row with its user, origin and destination) and keeps each audit row as
\* it was: the rows of scans before the step are a prefix of the rows after.
C29_RowsOnlyGrow ==
    [][ /\ Len(tickets') >= Len(tickets)
        /\ \A tid \in 1..Len(tickets) :
              /\ tickets'[tid].user = tickets[tid].user
              /\ tickets'[tid].origin = tickets[tid].origin
              /\ tickets'[tid].destination = tickets[tid].destination
        /\ Len(scans') >= Len(scans)
        /\ SubSeq(scans', 1, Len(scans)) = scans ]_vars

\* A purchased ticket that was refused at a first entry scan has expired,
\* and an offline ticket was issued after it: two ticket rows and three
\* audit rows, the first of them the failed scan.
C29_Witness ==
    /\ Len(tickets) = 2
    /\ tickets[1].status = "expired"
    /\ tickets[2].user = OfflineUser
    /\ Len(scans) = 3
    /\ scans[1].ticket = 1
    /\ ~ scans[1].success
    /\ scans[3].scan_type = "exit"

-----------------------------------------------------------------------------
(***************************************************************************)
(* Further properties of the station graph (SpecPath).                     *)
(***************************************************************************)

\* An interchange connection row a -> b exists.
InterchangeRow(a, b) ==
    \E k \in 1..Len(connections) :
        /\ connections[k].from_station = a
        /\ connections[k].to_station = b
        /\ connections[k].connection_type = "interchange"

\* The interchange rows the graph builder reads (those that leave an active
\* station) that are self-loops or lead to a station that is not a key of
\* the graph.
BrokenRows(adj) ==
    { k \in 1..Len(connections) :
        /\ connections[k].connection_type = "interchange"
        /\ connections[k].from_station \in DOMAIN adj
        /\ \/ connections[k].to_station = connections[k].from_station
           \/ connections[k].to_station \notin DOMAIN adj }

\* C24: a find_shortest_path call on connection data with a self-loop or
\* with a connection to a station that is not in the graph ends in a data
\* integrity error and returns no route.
C24_IntegrityHalts ==
    (Queried /\ BrokenRows(BuildAdjacency(stations, connections)) # {}) =>
        /\ route.error = "DataIntegrityError"
        /\ route.path = NoPath

GraphBuilt == route # NoRoute

\* C25: among the keys of the adjacency, b is a line neighbour of a exactly
\* when a is one of b, and line neighbours list each other; an interchange
\* row a -> b puts b in the list of a; and a station b lists a station a
\* that is not its line neighbour exactly when an interchange row b -> a
\* exists, whatever rows a -> b there are.
C25_LineSymmetricInterchangeDirected ==
    GraphBuilt =>
        LET adj == route.adjacency IN
        \A a \in DOMAIN adj, b \in DOMAIN adj :
            /\ LineNeighbor(stations, a, b) <=> LineNeighbor(stations, b, a)
            /\ LineNeighbor(stations, a, b) => Edge(adj, a, b) /\ Edge(adj, b, a)
            /\ InterchangeRow(a, b) => Edge(adj, a, b)
            /\ ~ LineNeighbor(stations, b, a) => (Edge(adj, b, a) <=> InterchangeRow(b, a))

\* The graph was built from rows where station a has a line neighbour c
\* (each lists the other) and an interchange row to a station b of another
\* line that has no row back: a lists b, and b does not list a.
C25_Witness ==
    /\ GraphBuilt
    /\ LET adj == route.adjacency IN
       \E a \in DOMAIN adj, b \in DOMAIN adj, c \in DOMAIN adj :
          /\ LineNeighbor(stations, a, c)
          /\ Edge(adj, a, c)
          /\ Edge(adj, c, a)
          /\ stations[a].line # stations[b].line
          /\ InterchangeRow(a, b)
          /\ ~ InterchangeRow(b, a)
          /\ Edge(adj, a, b)
          /\ ~ Edge(adj, b, a)

\* path is a shortest route from o to d on the station rows st (or no route
\* at all where st has none).
ShortestOn(st, o, d, path) ==
    LET adj == BuildAdjacency(st, connections) IN
    IF path = NoPath THEN ~ Reachable(adj, o, d)
    ELSE /\ path[1] = o
         /\ path[Len(path)] = d
         /\ IsWalk(adj, path)
         /\ Reachable(adj, o, d)
         /\ Len(path) - 1 = Hops(adj, o, d)

\* C26: a find_shortest_path call that ran while a station was saved
\* returns a shortest route of the station rows as they were when it
\* started or of the rows as they are when it returns.
C26_OneSnapshot ==
    (route # NoRoute /\ route.pc = "done") =>
        \/ ShortestOn(route.before, route.origin, route.destination, route.path)
        \/ ShortestOn(stations, route.origin, route.destination, route.path)

-----------------------------------------------------------------------------
(***************************************************************************)
(* Properties of concurrent purchases (SpecBuy).                           *)
(***************************************************************************)

\* The sum of the prices of the tickets of a user.
RECURSIVE Spent(_, _)
Spent(rows, user) ==
    IF rows = << >> THEN 0
    ELSE (IF Head(rows).user = user THEN Head(rows).price ELSE 0) + Spent(Tail(rows), user)

\* C27: a ticket row exists only when its fare has been taken from the
\* buyer's balance: the prices of a user's tickets add up to no more than
\* what has left the balance, and a purchase that has created its ticket
\* has already run its deduction.
C27_DeductedBeforeTicket ==
    /\ \A u \in Users : Spent(tickets, u) <= InitialBalance - balance[u]
    /\ \A p \in Procs :
          (req[p].op = "purchase" /\ req[p].ticket.status = "active") =>
              req[p].pc \in {"commit", "done"}

-----------------------------------------------------------------------------
(***************************************************************************)
(* Properties of the two breadth-first loops (SpecLoop, SpecLoopFair).     *)
(***************************************************************************)

\* C28: every find_shortest_path call, of either implementation and on
\* every graph (cycles, pairs of opposite edges and self-loops included),
\* comes to its end by a return: the destination is dequeued or the queue
\* runs empty.
C28_Terminates == <>(route.pc = "returned")

\* C30: in an iteration of either while loop the paths appended to the
\* queue are the dequeued path extended by one neighbour each, for
\* neighbours that are not in visited.
C30_FreshPathsOnly ==
    [][ (route.pc = "loop" /\ route.queue # << >>) =>
            LET path == Head(route.queue)
                kept == Len(route.queue) - 1
            IN /\ Len(route'.queue) >= kept
               /\ SubSeq(route'.queue, 1, kept) = Tail(route.queue)
               /\ \A i \in (kept + 1)..Len(route'.queue) :
                     \E n \in LoopNodes :
                        /\ n \notin route'.visited
                        /\ route'.queue[i] = Append(path, n) ]_vars

\* C31: a call of the command-line find_shortest_path for two stations of
\* self.stations never ends in an exception, and what it returns is None
\* when no walk along the connections leads to the destination, and
\* otherwise a walk from the origin to the destination with the least
\* number of hops.
C31_CliReturnsShortest ==
    ( /\ route.impl = "cli"
      /\ route.origin \in DOMAIN route.graph
      /\ route.destination \in DOMAIN route.graph ) =>
        /\ route.pc # "raised"
        /\ route.pc = "returned" =>
              IF route.path = NoPath
              THEN ~ Reachable(route.graph, route.origin, route.destination)
              ELSE /\ route.path[1] = route.origin
                   /\ route.path[Len(route.path)] = route.destination
                   /\ IsWalk(route.graph, route.path)
                   /\ Len(route.path) - 1 =
                         Hops(route.graph, route.origin, route.destination)

-----------------------------------------------------------------------------
(***************************************************************************)
(* Properties of the account balance (SpecWallet, SpecPurse).              *)
(***************************************************************************)

\* What the top-ups that have saved have added to the balance of a user.
RECURSIVE AddedBy(_, _)
AddedBy(P, user) ==
    IF P = {} THEN 0
    ELSE LET p == CHOOSE x \in P : TRUE
         IN (IF /\ req[p].op = "add_balance"
                /\ req[p].pc = "done"
                /\ req[p].user = user
             THEN req[p].amount ELSE 0) + AddedBy(P \ {p}, user)

\* C32: with purchases and top-ups of one user in flight together, the
\* stored balance is the initial balance plus the amounts added minus the
\* prices of the user's tickets.
C32_MoneyConserved ==
    \A u \in Users :
        balance[u] = InitialBalance + AddedBy(Procs, u) - Spent(tickets, u)

\* C33: the stored balance of a user is never negative; a deduct_balance
\* call that returns True has found balance >= amount and lowers the
\* balance by the amount, one that returns False has found balance < amount
\* and leaves the balance as it was; add_balance raises the balance.
C33_BalanceNeverNegative ==
    [][ \A u \in Users :
          /\ balance[u] >= 0
          /\ balance'[u] >= 0
          /\ resp'.op = "deduct_balance" =>
                IF resp'.success
                THEN /\ balance[u] >= resp'.message.arg
                     /\ balance'[u] = balance[u] - resp'.message.arg
                ELSE /\ balance[u] < resp'.message.arg
                     /\ balance'[u] = balance[u]
          /\ resp'.op = "add_balance" => balance'[u] > balance[u] ]_vars

\* deduct_balance has just refused an amount larger than the balance that
\* is left after a purchase and earlier deductions.
C33_Witness ==
    /\ resp.op = "deduct_balance"
    /\ ~ resp.success
    /\ balance["u1"] < resp.message.arg
    /\ balance["u1"] < InitialBalance
    /\ Len(tickets) > 0

-----------------------------------------------------------------------------
(***************************************************************************)
(* Invariants of tickets, counters and audit rows under sequential         *)
(* requests (SpecTrip, Spec).                                              *)
(***************************************************************************)

\* The times of a ticket that has been scanned in and out.
Travelled(tk) ==
    /\ tk.entry_time # Null
    /\ tk.exit_time # Null
    /\ tk.entry_time <= tk.exit_time

\* What the status of a ticket says about its times, the status 'used'
\* left aside.
TimesOf(tk) ==
    /\ tk.status = "active" => tk.entry_time = Null /\ tk.exit_time = Null
    /\ tk.status = "in_use" => tk.entry_time # Null /\ tk.exit_time = Null
    /\ tk.status = "expired" => tk.exit_time = Null

\* C34 as stated: every ticket that is 'active' has no entry_time and no
\* exit_time, every ticket 'in_use' has an entry_time and no exit_time,
\* every ticket 'used' has both with entry_time <= exit_time, and every
\* ticket 'expired' has no exit_time.
C34_StatusTimes ==
    \A tid \in 1..Len(tickets) :
        /\ TimesOf(tickets[tid])
        /\ tickets[tid].status = "used" => Travelled(tickets[tid])

\* C34, amended: as stated for 'active', 'in_use' and 'expired'; a ticket
\* that is 'used' has both times with entry_time <= exit_time when it was
\* purchased and scanned, and neither time when create_offline_ticket
\* created it.
C34_StatusTimesByOrigin ==
    \A tid \in 1..Len(tickets) :
        /\ TimesOf(tickets[tid])
        /\ tickets[tid].status = "used" =>
              IF tickets[tid].user = OfflineUser
              THEN tickets[tid].entry_time = Null /\ tickets[tid].exit_time = Null
              ELSE Travelled(tickets[tid])

\* A purchased ticket was scanned in some time after its purchase and is on
\* its journey, and an offline ticket was issued after it.
C34_Witness ==
    /\ Len(tickets) = 2
    /\ tickets[1].status = "in_use"
    /\ tickets[1].entry_time > tickets[1].purchased_at
    /\ tickets[2].user = OfflineUser
    /\ tickets[2].status = "used"
    /\ tickets[2].entry_time = Null
    /\ tickets[2].exit_time = Null

\* The audit rows of successful scans of one type at a station on a date;
\* the time of a successful scan is the entry_time or exit_time it stamped
\* on its ticket.
Passages(scan_type, station, date) ==
    { i \in 1..Len(scans) :
        /\ scans[i].scan_type = scan_type
        /\ scans[i].success
        /\ scans[i].station = station
        /\ LET tk == tickets[scans[i].ticket]
           IN Date(IF scan_type = "entry" THEN tk.entry_time ELSE tk.exit_time) = date }

\* C35: for every station and date there is at most one DailyFootfall row,
\* and its entry_count is the number of audit rows of successful entry
\* scans at that station on that date and its exit_count the number of
\* those of successful exit scans, a missing row counting as 0 and 0.
C35_CountersMatchAudit ==
    \A s \in Stations, d \in 0..Date(MaxClock) :
        LET found == Matching(footfall, << s, d >>)
            row == IF found = {} THEN NewRow(<< s, d >>)
                   ELSE footfall[GetRow(footfall, << s, d >>)]
        IN /\ Cardinality(found) <= 1
           /\ row.entry_count = Cardinality(Passages("entry", s, d))
           /\ row.exit_count = Cardinality(Passages("exit", s, d))

\* Two passengers have entered at station 1, and one of them has left at
\* station 3 on the day after the first day.
C35_Witness ==
    /\ \E id \in 1..Len(footfall) :
          /\ footfall[id].station = 1
          /\ footfall[id].entry_count = 2
    /\ \E id \in 1..Len(footfall) :
          /\ footfall[id].station = 3
          /\ footfall[id].date = 1
          /\ footfall[id].exit_count = 1
    /\ Len(footfall) = 2

\* The positions in the audit trail of the successful scans of one type of a
\* ticket.
Passed(tid, scan_type) ==
    { i \in 1..Len(scans) :
        scans[i].ticket = tid /\ scans[i].scan_type = scan_type /\ scans[i].success }

\* C36: in the audit trail every ticket has at most one successful entry
\* row and at most one successful exit row; the successful entry row is at
\* the origin of the ticket and the successful exit row at its destination;
\* and a successful exit row has the successful entry row of its ticket
\* before it.
C36_AuditTrailOrder ==
    \A tid \in 1..Len(tickets) :
        LET entries == Passed(tid, "entry")
            exits == Passed(tid, "exit")
        IN /\ Cardinality(entries) <= 1
           /\ Cardinality(exits) <= 1
           /\ \A e \in entries : scans[e].station = tickets[tid].origin
           /\ \A x \in exits :
                 /\ scans[x].station = tickets[tid].destination
                 /\ \E e \in entries : e < x

\* A ticket was scanned in at its origin, refused at the exit of a station
\* that is not its destination, and scanned out at its destination.
C36_Witness ==
    /\ Len(scans) = 3
    /\ scans[1].ticket = scans[3].ticket
    /\ scans[2].ticket = scans[1].ticket
    /\ scans[1].scan_type = "entry" /\ scans[1].success
    /\ scans[2].scan_type = "exit" /\ ~ scans[2].success
    /\ scans[2].station # tickets[scans[2].ticket].destination
    /\ scans[3].scan_type = "exit" /\ scans[3].success

\* The case in which an expiry check has to act: the ticket is 'active' and
\* the clock is past purchased_at + TICKET_EXPIRY_HOURS.
Expires(tk, now) == tk.status = "active" /\ now > tk.purchased_at + TICKET_EXPIRY_HOURS

\* C37: the expiry check that ticket_detail runs on a ticket returns True
\* exactly when the ticket was 'active' and the clock is past purchased_at +
\* TICKET_EXPIRY_HOURS, and then the only change is that the status of this
\* ticket becomes 'expired'; in every other case it returns False and no
\* ticket changes; a second check at the same clock returns False, saves
\* nothing and leaves the ticket as the first check left it.
C37_ExpiryCheck ==
    [][ \A tid \in 1..Len(tickets) :
            ticket_detail(tid) =>
                /\ resp'.success = Expires(tickets[tid], clock)
                /\ tickets' = IF Expires(tickets[tid], clock)
                              THEN [tickets EXCEPT ![tid].status = "expired"]
                              ELSE tickets
                /\ LET again == check_and_update_expiry(tickets'[tid], clock') IN
                      /\ ~ again.ret
                      /\ ~ again.save
                      /\ again.ticket = tickets'[tid] ]_vars

\* An expiry check has just returned True: the ticket it ran on is 'expired'
\* and was never scanned.
C37_Witness ==
    /\ resp.op = "ticket_detail"
    /\ resp.success
    /\ Len(tickets) = 1
    /\ tickets[1].status = "expired"
    /\ tickets[1].entry_time = Null
    /\ clock > tickets[1].purchased_at + TICKET_EXPIRY_HOURS

------------------------------------------------------------------------------
\* Purchases and the service state of the lines, over SpecBook.

\* The line is in service and sells tickets.
Bookable(line) == line.is_active /\ line.ticket_booking_enabled

\* C38: a purchase_ticket request creates no ticket and leaves the balance
\* alone when the line of the origin is out of service or has booking
\* disabled, and when the balance of the user is lower than the fare of the
\* route; and the path of a ticket that a purchase_ticket request creates
\* has no station of a line that is out of service or has booking disabled
\* at that moment.
C38_NoClosedLine ==
    [][ \A u \in Users, o \in Stations, d \in Stations :
            purchase_ticket(u, o, d) =>
                LET path == find_shortest_path(stations, connections, o, d) IN
                /\ ~ Bookable(lines[stations[o].line]) =>
                       tickets' = tickets /\ balance' = balance
                /\ (path # NoPath /\ balance[u] < calculate_fare(path)) =>
                       tickets' = tickets /\ balance' = balance
                /\ Len(tickets') > Len(tickets) =>
                       \A i \in 1..Len(tickets'[Len(tickets')].path) :
                           Bookable(lines[stations[tickets'[Len(tickets')].path[i]].line]) ]_vars

=============================================================================
